---- MODULE Spec2Model ----
(***************************************************************************)
(* A model of the U-Sleep API python bindings (usleep_api/usleep_api.py,   *)
(* usleep_api/utils.py): the transport wrapper, the session client's       *)
(* methods and the quick_predict workflow with its scoped session.         *)
(*                                                                         *)
(* Strings the code takes apart or compares after a conversion (status     *)
(* labels, log chunks, file paths) are sequences of one-character strings; *)
(* names that are only compared for equality are plain strings.            *)
(***************************************************************************)
EXTENDS Integers, Sequences, FiniteSets, TLC

VARIABLES
    pc,               \* position in quick_predict / in the function under study
    args,             \* the arguments of the running call
    session,          \* session_name of the scoped (throw-away) session
    trace,            \* every effect so far, in order: requests, sleeps, prints, file writes
    full_log,         \* stream_prediction_log: the list full_log
    continue_stream,  \* stream_prediction_log: the flag continue_stream
    polls,            \* the responses the log-stream requests have received, in order
    loc,              \* quick_predict's locals: success, log, hyp and the status label read
    err,              \* the exception in flight (type "none" when there is none)
    outcome,          \* "running", "returned" or "raised"
    fs,               \* the files written: path -> content
    inp,              \* the input of the pure function under study
    out,              \* its result
    api               \* the root client (self of quick_predict): url, session_name, api_token

vars == <<pc, args, session, trace, full_log, continue_stream, polls, loc, err,
          outcome, fs, inp, out, api>>

(***************************************************************************)
(* Bounds of the model.                                                    *)
(***************************************************************************)
\* the server reports finished=true (or fails) no later than this poll
MaxPolls == 3
\* _infer_channel_groups: channels and types lists of the file info
MaxChannels == 3
\* _infer_channel_groups: number of required-type slots
MaxSlots == 2
\* _infer_channel_groups: largest MAX_CHANNEL_COMBINATIONS the server advertises
MaxCombinations == 4
\* predict: number of channel groups given, and channels per group
MaxGroups == 2
MaxGroupLen == 2

(***************************************************************************)
(* Small helpers on sequences.                                             *)
(***************************************************************************)
Min(a, b) == IF a < b THEN a ELSE b
Max(a, b) == IF a > b THEN a ELSE b

Range(s) == {s[i] : i \in 1..Len(s)}

\* all sequences over S of length 0..n
RECURSIVE SeqsUpTo(_, _)
SeqsUpTo(S, n) ==
    IF n = 0 THEN {<<>>}
    ELSE LET shorter == SeqsUpTo(S, n - 1)
         IN  shorter \cup {Append(s, x) : s \in {t \in shorter : Len(t) = n - 1}, x \in S}

\* a join that puts the later chunks first
RECURSIVE JoinReversed(_)
JoinReversed(list) == IF list = <<>> THEN <<>> ELSE JoinReversed(Tail(list)) \o Head(list)

\* "".join(list) on lists of character sequences
RECURSIVE Join(_)
Join(list) == IF list = <<>> THEN <<>> ELSE Head(list) \o Join(Tail(list))

\* str.lower(), character by character
UpperChars == <<"A", "B", "C", "D", "E", "F", "G", "H", "I", "J", "K", "L", "M",
                "N", "O", "P", "Q", "R", "S", "T", "U", "V", "W", "X", "Y", "Z">>
LowerChars == <<"a", "b", "c", "d", "e", "f", "g", "h", "i", "j", "k", "l", "m",
                "n", "o", "p", "q", "r", "s", "t", "u", "v", "w", "x", "y", "z">>
LowerChar(c) ==
    IF \E i \in 1..Len(UpperChars) : UpperChars[i] = c
    THEN LowerChars[CHOOSE i \in 1..Len(UpperChars) : UpperChars[i] = c]
    ELSE c
Lower(s) == [i \in 1..Len(s) |-> LowerChar(s[i])]

(***************************************************************************)
(* Paths and file contents: a path is the sequence of its characters, a    *)
(* file's content the sequence of its bytes.                               *)
(***************************************************************************)
\* str.rfind(c), 0 when c does not occur (positions from 1)
RFind(p, c) ==
    IF \E i \in 1..Len(p) : p[i] = c
    THEN CHOOSE i \in 1..Len(p) : p[i] = c /\ \A j \in (i + 1)..Len(p) : p[j] # c
    ELSE 0

\* os.path.splitext: the extension starts at the last dot of the last path
\* component, unless only dots precede it there
SplitExt(p) ==
    LET sep == RFind(p, "/")
        dot == RFind(p, ".")
    IN  IF dot > sep /\ \E i \in (sep + 1)..(dot - 1) : p[i] # "."
        THEN <<SubSeq(p, 1, dot - 1), SubSeq(p, dot, Len(p))>>
        ELSE <<p, <<>> >>

\* str.strip(".")
RECURSIVE LStrip(_, _)
LStrip(p, c) == IF p # <<>> /\ Head(p) = c THEN LStrip(Tail(p), c) ELSE p
RECURSIVE RStrip(_, _)
RStrip(p, c) ==
    IF p # <<>> /\ p[Len(p)] = c THEN RStrip(SubSeq(p, 1, Len(p) - 1), c) ELSE p
Strip(p, c) == RStrip(LStrip(p, c), c)

\* pathlib's Path(p).suffix: from the last dot of the last component, unless
\* that dot is its first or its last character
PathSuffix(p) ==
    LET q    == RStrip(p, "/")
        name == SubSeq(q, RFind(q, "/") + 1, Len(q))
        dot  == RFind(name, ".")
    IN  IF dot > 1 /\ dot < Len(name) THEN SubSeq(name, dot, Len(name)) ELSE <<>>

\* str.ljust(width): padded with spaces on the right
LJust(cs, width) == cs \o [i \in 1..(width - Len(cs)) |-> " "]

\* what a write of data at offset pos (from 0) makes of a file's content;
\* a gap before pos reads as zero bytes
WriteAt(content, pos, data) ==
    [i \in 1..Max(Len(content), pos + Len(data)) |->
        IF i > pos /\ i <= pos + Len(data) THEN data[i - pos]
        ELSE IF i <= Len(content) THEN content[i]
        ELSE "NUL"]

(***************************************************************************)
(* Errors, responses and the transport wrapper (_request, get, post,      *)
(* delete).                                                                *)
(***************************************************************************)
NoErr == [type |-> "none", at |-> "", body |-> ""]
Err(type, at, body) == [type |-> type, at |-> at, body |-> body]
IsErr(e) == e.type # "none"

NoJson == [nojson |-> TRUE]
\* the request did not get a response (requests raises a connection error)
ConnErr == [kind |-> "conn", status |-> 0, content |-> "", isjson |-> FALSE, val |-> NoJson]
\* a response whose body is not JSON
Raw(status, content) ==
    [kind |-> "http", status |-> status, content |-> content, isjson |-> FALSE, val |-> NoJson]
\* a response whose body decodes to the JSON value val
Json(status, content, val) ==
    [kind |-> "http", status |-> status, content |-> content, isjson |-> TRUE, val |-> val]

\* one effect of the program, as the outside sees it
Ev(op, ep, s, data) == [op |-> op, ep |-> ep, session |-> s, data |-> data]
NoData == [none |-> TRUE]

\* what a method hands back: the effects it had, the exception it raised, its value
Res(evs, e, val) == [evs |-> evs, err |-> e, val |-> val]

\* _request once the request has been sent and resp is what came of it
Request(resp, as_json, at) ==
    IF resp.kind = "conn"
    THEN [err |-> Err("ConnectionError", at, ""), val |-> NoJson]
    ELSE IF as_json
         THEN IF resp.isjson
              THEN [err |-> NoErr, val |-> resp.val]
              ELSE [err |-> Err("ValueError", at, resp.content), val |-> NoJson]
         ELSE [err |-> NoErr, val |-> resp]

\* dict[key] on a decoded JSON object
HasKey(obj, key) == key \in DOMAIN obj

(***************************************************************************)
(* Program constants.                                                      *)
(***************************************************************************)
\* stream(delay_sec=0): the delay of the first call
DefaultDelay == 0
\* stream(delay_sec=2): the delay of every later call
LoopDelay == 2

Completed == <<"c", "o", "m", "p", "l", "e", "t", "e", "d">>
\* a list of formats that lets csv in
FileTypesAndCsv ==
    {<<"t", "s", "v">>, <<"t", "x", "t">>, <<"n", "p", "y">>, <<"c", "s", "v">>}

\* ("tsv", "txt", "npy")
FileTypes == {<<"t", "s", "v">>, <<"t", "x", "t">>, <<"n", "p", "y">>}

(***************************************************************************)
(* set_model                                                               *)
(***************************************************************************)
\* a set_model that does not validate the name
ModelInListUnchecked(model_str, model_names) == TRUE

\* model_str in model_names
ModelInList(model_str, model_names) == model_str \in Range(model_names)

\* the local model_names before get_model_names has returned
NoModelNames == [fetched |-> FALSE, names |-> <<>>]

\* val is the local model_names
SetModel(s, model_str, r_names, r_post) ==
    LET get  == Request(r_names, TRUE, "get_model_names")
        evs1 == <<Ev("GET", "info/model_names", "", NoData)>>
    IN  IF IsErr(get.err) THEN Res(evs1, get.err, NoModelNames)
        ELSE IF ~HasKey(get.val, "models")
        THEN Res(evs1, Err("KeyError", "get_model_names", "models"), NoModelNames)
        ELSE LET model_names == [fetched |-> TRUE, names |-> get.val.models]
             IN  IF ~ModelInList(model_str, get.val.models)
                 THEN Res(evs1, Err("ValueError", "set_model", "Invalid model"), model_names)
                 ELSE Res(evs1 \o <<Ev("POST", "set_model", s, [model |-> model_str])>>,
                          Request(r_post, FALSE, "set_model").err, model_names)

(***************************************************************************)
(* temp_anonymized_edf (utils.py) and upload_file. A file given to them is *)
(* a record: its path, whether the path is a pathlib.Path (and not a str),  *)
(* whether the file exists, and its content.                               *)
(***************************************************************************)
\* in_f.read(8096)
ChunkSize == 8096
\* anon_file.seek(8)
HeaderStart == 8
\* "...".ljust(80)
FieldWidth == 80

DotEdf == <<".", "e", "d", "f">>
\* "X X X X_X"
PatientField == <<"X", " ", "X", " ", "X", " ", "X", "_", "X">>
\* "Startdate 01-JAN-1970 X X X"
RecordingField ==
    <<"S", "t", "a", "r", "t", "d", "a", "t", "e", " ", "0", "1", "-", "J", "A", "N", "-",
      "1", "9", "7", "0", " ", "X", " ", "X", " ", "X">>
\* "01.01.70" and "00.00.00"
StartDate == <<"0", "1", ".", "0", "1", ".", "7", "0">>
StartTime == <<"0", "0", ".", "0", "0", ".", "0", "0">>

\* while True: data = in_f.read(8096); if not data: break; anon_file.write(data)
RECURSIVE CopyChunks(_, _)
CopyChunks(source, copy) ==
    LET data == SubSeq(source, Len(copy) + 1, Min(Len(source), Len(copy) + ChunkSize))
    IN  IF data = <<>> THEN copy ELSE CopyChunks(source, copy \o data)

\* a seek that leaves the handle where it is
FileSeekNowhere(h, pos) == h

\* a file handle is its file's content and its position; seek and write
FileSeek(h, pos) == [h EXCEPT !.pos = pos]
FileWrite(h, data) ==
    [h EXCEPT !.content = WriteAt(h.content, h.pos, data), !.pos = h.pos + Len(data)]

NoHandle == [content |-> <<>>, pos |-> 0, open |-> FALSE]

\* lines 20-34: the copy, the four header fields, the rewind
Anonymized(source) ==
    LET copied == [content |-> CopyChunks(source, <<>>), pos |-> Len(source), open |-> TRUE]
        w1     == FileWrite(FileSeek(copied, HeaderStart), LJust(PatientField, FieldWidth))
        w2     == FileWrite(w1, LJust(RecordingField, FieldWidth))
        w3     == FileWrite(w2, StartDate)
        w4     == FileWrite(w3, StartTime)
    IN  FileSeek(w4, 0)

\* val is the handle returned; file_path.suffix needs a pathlib.Path
TempAnonymizedEdf(file) ==
    LET mktemp == Ev("MKTEMP", "", "", [suffix |-> PathSuffix(file.path)])
        open   == Ev("OPEN", "", "", [path |-> file.path, mode |-> "rb"])
    IN  IF PathSuffix(file.path) # DotEdf
        THEN Res(<<>>, Err("ValueError", "temp_anonymized_edf", "non-edf"), NoHandle)
        ELSE IF ~file.pathlike
        THEN Res(<<>>, Err("AttributeError", "temp_anonymized_edf", "suffix"), NoHandle)
        ELSE IF ~file.exists
        THEN Res(<<mktemp>>, Err("OSError", "temp_anonymized_edf", "open"), NoHandle)
        ELSE Res(<<mktemp, open>>, NoErr, Anonymized(file.content))

\* open(file_path, "rb")
OpenToRead(file) ==
    IF ~file.exists THEN Res(<<>>, Err("OSError", "upload_file", "open"), NoHandle)
    ELSE Res(<<Ev("OPEN", "", "", [path |-> file.path, mode |-> "rb"])>>, NoErr,
             [content |-> file.content, pos |-> 0, open |-> TRUE])

UploadFile(s, file, anonymize_before_upload, r_post) ==
    LET in_f == IF anonymize_before_upload THEN TempAnonymizedEdf(file) ELSE OpenToRead(file)
    IN  IF IsErr(in_f.err) THEN Res(in_f.evs, in_f.err, NoData)
        ELSE Res(in_f.evs \o <<Ev("POST", "file", s, [anonymized |-> anonymize_before_upload])>>,
                 Request(r_post, FALSE, "upload_file").err, NoData)

(***************************************************************************)
(* get_file_info, get_configuration_options, get_config_variable,         *)
(* get_status, get_hypnogram, delete_session                               *)
(***************************************************************************)
\* a file info that is made up without asking the server
GetFileInfoUnasked(s, r) == Res(<<>>, NoErr, [channels |-> <<>>, inferred_channel_types |-> <<>>])

GetFileInfo(s, r) ==
    LET get == Request(r, TRUE, "get_file_info")
    IN  Res(<<Ev("GET", "file", s, NoData)>>, get.err, get.val)

GetConfigurationOptions(s, r) ==
    LET get == Request(r, TRUE, "get_configuration_options")
    IN  Res(<<Ev("GET", "configuration_options", s, NoData)>>, get.err, get.val)

GetConfigVariable(variable, r) ==
    LET get == Request(r, TRUE, "get_config_variable")
    IN  Res(<<Ev("GET", "info/config", "", [variable |-> variable])>>, get.err, get.val)

GetStatus(s, r) ==
    LET get == Request(r, TRUE, "get_status")
    IN  Res(<<Ev("GET", "prediction_status", s, NoData)>>, get.err, get.val)

NoHyp == [tag |-> "none"]

GetHypnogram(s, r) ==
    LET get == Request(r, FALSE, "get_hypnogram")
        evs == <<Ev("GET", "hypnogram", s, NoData)>>
    IN  IF IsErr(get.err) THEN Res(evs, get.err, NoHyp)
        ELSE IF r.status = 200
        THEN IF r.isjson THEN Res(evs, NoErr, [tag |-> "json", val |-> r.val])
             ELSE Res(evs, Err("JSONDecodeError", "get_hypnogram", r.content), NoHyp)
        ELSE Res(evs, NoErr, [tag |-> "response", status |-> r.status, content |-> r.content])

DeleteSession(s, r) ==
    Res(<<Ev("DELETE", "session", s, NoData)>>, Request(r, FALSE, "delete_session").err, NoData)

(***************************************************************************)
(* _infer_channel_groups                                                   *)
(***************************************************************************)
\* a filter that lets every channel into every slot
TypeMatchesAny(type, required) == TRUE

\* type in required
TypeMatches(type, required) == type \in Range(required)

\* [channel for channel, type in zip(channels, types) if type in required]
RECURSIVE MatchingFrom(_, _, _, _)
MatchingFrom(channels, types, required, j) ==
    IF j > Min(Len(channels), Len(types)) THEN <<>>
    ELSE (IF TypeMatches(types[j], required) THEN <<channels[j]>> ELSE <<>>)
         \o MatchingFrom(channels, types, required, j + 1)

MatchingChannels(channels, types, required_types) ==
    [i \in 1..Len(required_types) |-> MatchingFrom(channels, types, required_types[i], 1)]

\* [x + [y] for y in pool]
ExtendOne(x, pool) == [j \in 1..Len(pool) |-> Append(x, pool[j])]

\* [x + [y] for x in result for y in pool]
RECURSIVE ExtendAll(_, _)
ExtendAll(result, pool) ==
    IF result = <<>> THEN <<>>
    ELSE ExtendOne(Head(result), pool) \o ExtendAll(Tail(result), pool)

\* itertools.product(*pools): result = [[]]; for pool in pools: result = [x+[y] ...]
RECURSIVE Product(_)
Product(pools) ==
    IF pools = <<>> THEN << <<>> >>
    ELSE ExtendAll(Product(SubSeq(pools, 1, Len(pools) - 1)), pools[Len(pools)])

\* an inference that keeps every combination
SliceToEnd(list, stop) == list

\* list[:stop]
SliceTo(list, stop) ==
    IF stop >= 0 THEN SubSeq(list, 1, Min(stop, Len(list)))
    ELSE SubSeq(list, 1, Max(Len(list) + stop, 0))

InferGroups(channels, types, required_types, max_groups) ==
    SliceTo(Product(MatchingChannels(channels, types, required_types)), max_groups)

InferChannelGroups(s, r_file, r_conf, r_max) ==
    LET info == GetFileInfo(s, r_file)
        conf == GetConfigurationOptions(s, r_conf)
        cvar == GetConfigVariable("MAX_CHANNEL_COMBINATIONS", r_max)
        evs2 == info.evs \o conf.evs
        evs3 == evs2 \o cvar.evs
    IN  IF IsErr(info.err) THEN Res(info.evs, info.err, <<>>)
        ELSE IF ~HasKey(info.val, "channels")
        THEN Res(info.evs, Err("KeyError", "_infer_channel_groups", "channels"), <<>>)
        ELSE IF ~HasKey(info.val, "inferred_channel_types")
        THEN Res(info.evs, Err("KeyError", "_infer_channel_groups", "inferred_channel_types"), <<>>)
        ELSE IF IsErr(conf.err) THEN Res(evs2, conf.err, <<>>)
        ELSE IF ~HasKey(conf.val, "required_channels")
        THEN Res(evs2, Err("KeyError", "_infer_channel_groups", "required_channels"), <<>>)
        ELSE IF IsErr(cvar.err) THEN Res(evs3, cvar.err, <<>>)
        ELSE IF ~HasKey(cvar.val, "MAX_CHANNEL_COMBINATIONS")
        THEN Res(evs3, Err("KeyError", "_infer_channel_groups", "MAX_CHANNEL_COMBINATIONS"), <<>>)
        ELSE Res(evs3, NoErr,
                 InferGroups(info.val.channels, info.val.inferred_channel_types,
                             conf.val.required_channels, cvar.val.MAX_CHANNEL_COMBINATIONS))

(***************************************************************************)
(* predict                                                                 *)
(***************************************************************************)
Digits == <<"0", "1", "2", "3", "4", "5", "6", "7", "8", "9">>
IsDigit(c) == \E i \in 1..10 : Digits[i] = c
DigitVal(c) == (CHOOSE i \in 1..10 : Digits[i] = c) - 1

RECURSIVE DigitsVal(_, _)
DigitsVal(cs, acc) ==
    IF cs = <<>> THEN acc ELSE DigitsVal(Tail(cs), 10 * acc + DigitVal(Head(cs)))

\* a conversion that also insists on a positive number
IntConvPositive(x) ==
    IF x.t = "int" /\ x.v > 0 THEN [err |-> NoErr, val |-> x.v]
    ELSE [err |-> Err("ValueError", "predict", "must be a positive integer"), val |-> 0]

\* int(x): an int stays as it is, a str is parsed as an optional sign and
\* decimal digits, anything else in the str is a ValueError, None is a TypeError
IntConv(x) ==
    IF x.t = "int" THEN [err |-> NoErr, val |-> x.v]
    ELSE IF x.t = "str"
    THEN LET signed == x.v # <<>> /\ Head(x.v) \in {"-", "+"}
             digs   == IF signed THEN Tail(x.v) ELSE x.v
         IN  IF digs # <<>> /\ \A i \in 1..Len(digs) : IsDigit(digs[i])
             THEN [err |-> NoErr,
                   val |-> IF signed /\ Head(x.v) = "-" THEN 0 - DigitsVal(digs, 0)
                           ELSE DigitsVal(digs, 0)]
             ELSE [err |-> Err("ValueError", "predict", "invalid literal for int()"), val |-> 0]
    ELSE [err |-> Err("TypeError", "predict", "int() argument"), val |-> 0]

\* data[key] = value
DictSet(d, key, value) ==
    [k \in DOMAIN d \cup {key} |-> IF k = key THEN value ELSE d[k]]

\* f'channels-{entry_count}', f'channel_group_idx-{entry_count}'
ChannelKey(entry_count) == "channels-" \o ToString(entry_count)
GroupIdxKey(entry_count) == "channel_group_idx-" \o ToString(entry_count)

\* a loop that forgets to count the entries
NextEntryStuck(entry_count) == entry_count

\* entry_count += 1
NextEntry(entry_count) == entry_count + 1

\* for channel in group: ...
RECURSIVE FillGroup(_, _, _, _)
FillGroup(data, group, group_idx, entry_count) ==
    IF group = <<>> THEN [data |-> data, entry_count |-> entry_count]
    ELSE FillGroup(DictSet(DictSet(data, ChannelKey(entry_count), Head(group)),
                           GroupIdxKey(entry_count), group_idx),
                   Tail(group), group_idx, NextEntry(entry_count))

\* for group_idx, group in enumerate(channel_groups): ...
RECURSIVE FillGroups(_, _, _, _)
FillGroups(data, channel_groups, group_idx, entry_count) ==
    IF channel_groups = <<>> THEN data
    ELSE LET done == FillGroup(data, Head(channel_groups), group_idx, entry_count)
         IN  FillGroups(done.data, Tail(channel_groups), group_idx + 1, done.entry_count)

\* the dict data that predict posts
PredictData(dpp, channel_groups) ==
    FillGroups([k \in {"data_per_prediction"} |-> dpp], channel_groups, 0, 0)

Predict(s, data_per_prediction, channel_groups, r_file, r_conf, r_max, r_post) ==
    LET conv   == IntConv(data_per_prediction)
        infer  == IF channel_groups.given THEN Res(<<>>, NoErr, channel_groups.groups)
                  ELSE InferChannelGroups(s, r_file, r_conf, r_max)
    IN  IF IsErr(conv.err) THEN Res(<<>>, conv.err, NoData)
        ELSE IF IsErr(infer.err) THEN Res(infer.evs, infer.err, NoData)
        ELSE Res(infer.evs \o <<Ev("POST", "predict", s, PredictData(conv.val, infer.val))>>,
                 Request(r_post, FALSE, "predict").err, NoData)

(***************************************************************************)
(* stream_prediction_log: one call of the inner function stream            *)
(***************************************************************************)
\* if log: ... full_log.append(log)
LogToAppend(chunk) == IF chunk # <<>> THEN <<chunk>> ELSE <<>>

\* a stream that always asks to be called again
ContinueAlways(finished) == TRUE

\* return not response['finished']
ContinueAfter(finished) == ~finished

\* a check that lets client errors (4xx) through
PollFailedServerErrorsOnly(r) == r.status >= 500

\* if response.status_code != 200
PollFailed(r) == r.status # 200

\* val.append is what full_log gains, val.cont what stream returns
Stream(s, delay_sec, verbose, r) ==
    LET get  == Request(r, FALSE, "stream")
        evs  == <<Ev("SLEEP", "", "", [sec |-> delay_sec]),
                  Ev("GET", "prediction_log_stream", s, NoData)>>
        none == [append |-> <<>>, cont |-> FALSE]
    IN  IF IsErr(get.err) THEN Res(evs, get.err, none)
        ELSE IF PollFailed(r) THEN Res(evs, Err("ValueError", "stream", r.content), none)
        ELSE IF ~r.isjson THEN Res(evs, Err("JSONDecodeError", "stream", r.content), none)
        ELSE IF ~HasKey(r.val, "log") THEN Res(evs, Err("KeyError", "stream", "log"), none)
        ELSE LET log     == r.val.log
                 printed == IF log # <<>> /\ verbose
                            THEN <<Ev("PRINT", "", "", [text |-> log])>> ELSE <<>>
             IN  IF ~HasKey(r.val, "finished")
                 THEN Res(evs \o printed, Err("KeyError", "stream", "finished"),
                          [append |-> LogToAppend(log), cont |-> FALSE])
                 ELSE Res(evs \o printed, NoErr,
                          [append |-> LogToAppend(log), cont |-> ContinueAfter(r.val.finished)])

\* a comparison that forgets .lower()
IsCompletedExactCase(label) == label = Completed

\* get_status()['label'].lower() == "completed"
IsCompleted(label) == Lower(label) = Completed

\* the tail of stream_prediction_log: the status query and the value returned
StreamStatus(s, r) ==
    LET st == GetStatus(s, r)
    IN  IF IsErr(st.err) THEN Res(st.evs, st.err, [label |-> <<>>, success |-> FALSE])
        ELSE IF ~HasKey(st.val, "label")
        THEN Res(st.evs, Err("KeyError", "stream_prediction_log", "label"),
                 [label |-> <<>>, success |-> FALSE])
        ELSE Res(st.evs, NoErr, [label |-> st.val.label, success |-> IsCompleted(st.val.label)])

(***************************************************************************)
(* download_hypnogram                                                      *)
(***************************************************************************)
\* os.path.splitext(out_path)[0] + f".{file_type}"
SavePath(out_path, file_type) == SplitExt(out_path)[1] \o <<".">> \o file_type

\* write_ok: whether open(out_path, "wb") and the write succeed
DownloadHypnogram(s, out_path, file_type, r, write_ok) ==
    LET ft   == Strip(file_type, ".")
        get  == Request(r, FALSE, "download_hypnogram")
        evs  == <<Ev("GET", "download/hypnogram", s, [file_type |-> ft])>>
    IN  IF ft \notin FileTypes
        THEN Res(<<>>, Err("AssertionError", "download_hypnogram", "Invalid file format"), NoData)
        ELSE IF IsErr(get.err) THEN Res(evs, get.err, NoData)
        ELSE IF r.status = 200
        THEN IF write_ok
             THEN Res(evs \o <<Ev("WRITE", "", "", [path |-> SavePath(out_path, ft),
                                                     content |-> r.content])>>,
                      NoErr, NoData)
             ELSE Res(evs, Err("OSError", "download_hypnogram", "open"), NoData)
        ELSE Res(evs, Err("ValueError", "download_hypnogram", r.content), NoData)

\* path, type_ = os.path.splitext(output_file_path)
\* session.download_hypnogram(out_path=path, file_type=type_)
DownloadOutput(s, output_file_path, r, write_ok) ==
    LET split == SplitExt(output_file_path)
    IN  DownloadHypnogram(s, split[1], split[2], r, write_ok)

\* a log file that is opened and left empty
WriteLogEmpty(log_file_path, log, write_ok) ==
    IF write_ok
    THEN Res(<<Ev("WRITE", "", "", [path |-> log_file_path, content |-> <<>>])>>, NoErr, NoData)
    ELSE Res(<<>>, Err("OSError", "quick_predict", "open"), NoData)

\* with open(log_file_path, "w") as out_f: out_f.write(log)
WriteLog(log_file_path, log, write_ok) ==
    IF write_ok
    THEN Res(<<Ev("WRITE", "", "", [path |-> log_file_path, content |-> log])>>, NoErr, NoData)
    ELSE Res(<<>>, Err("OSError", "quick_predict", "open"), NoData)

\* the files after the WRITE effects of evs
RECURSIVE ApplyWrites(_, _)
ApplyWrites(files, evs) ==
    IF evs = <<>> THEN files
    ELSE LET e == Head(evs)
         IN  ApplyWrites(IF e.op = "WRITE"
                         THEN [q \in DOMAIN files \cup {e.data.path} |->
                                 IF q = e.data.path THEN e.data.content ELSE files[q]]
                         ELSE files,
                         Tail(evs))

(***************************************************************************)
(* The client object: __init__, validate_token, new_session. A url is the  *)
(* sequence of its characters.                                             *)
(***************************************************************************)
NoClient == [url |-> <<>>, session_name |-> "", api_token |-> "", built |-> FALSE]

\* _add_token_to_headers, when self.api_token is not empty
Headers(self) ==
    IF self.api_token # "" THEN [Authorization |-> "Bearer " \o self.api_token]
    ELSE [none |-> TRUE]

\* a validation that accepts whatever the server answers
PingRefusedNever(r) == FALSE

\* if response.status_code != 200
PingRefused(r) == r.status # 200

ValidateToken(self, r) ==
    LET get == Request(r, FALSE, "validate_token")
        evs == <<Ev("GET", "info/ping", "", [url |-> self.url, headers |-> Headers(self)])>>
    IN  IF IsErr(get.err) THEN Res(evs, get.err, NoData)
        ELSE IF PingRefused(r)
        THEN Res(evs, Err("ConnectionRefusedError", "validate_token",
                          "Invalid authentication token specified."), NoData)
        ELSE Res(evs, NoErr, NoData)

\* USleepAPI(api_token, session_name, validate_token, url); val is the object,
\* NoClient when __init__ raised
USleepAPI(api_token, session_name, validate_token, url, r_ping) ==
    LET self    == [url |-> RStrip(url, "/"), session_name |-> session_name,
                    api_token |-> api_token, built |-> TRUE]
        checked == IF validate_token THEN ValidateToken(self, r_ping)
                   ELSE Res(<<>>, NoErr, NoData)
    IN  Res(checked.evs, checked.err, IF IsErr(checked.err) THEN NoClient ELSE self)

\* new_session: validate_token=False, so that no answer is ever read
\* a factory that hands back a client of the caller's own session
NewSessionOfSelf(self, session_name) ==
    USleepAPI(self.api_token, self.session_name, FALSE, self.url, ConnErr)

NewSession(self, session_name) ==
    USleepAPI(self.api_token, session_name, FALSE, self.url, ConnErr)

(***************************************************************************)
(* The scoped session: new_session_context and random_hex_string           *)
(***************************************************************************)
\* a scope that releases the session only when the block ended normally
FinallyOnSuccessOnly(e) == ~IsErr(e)

\* finally: the block runs whatever exception e is in flight
Finally(e) == TRUE

\* a scope whose exit decides alone what the caller sees
RaisedByFinallyOnly(in_flight, in_finally) == in_finally

\* what leaves a try/finally: the exception the finally block raised, or else
\* the one that was in flight
Raised(in_flight, in_finally) == IF IsErr(in_finally) THEN in_finally ELSE in_flight

\* names random_hex_string can produce
SessionNames == {"3fa9", "b07c"}

(***************************************************************************)
(* What the caller passes and what the server and the disk may answer.     *)
(***************************************************************************)
\* a path is the sequence of its characters; the empty one stands for None
OutTsv == <<"o", "u", "t", ".", "t", "s", "v">>
LogTxt == <<"l", "o", "g", ".", "t", "x", "t">>

PsgEdf == <<"p", "s", "g", ".", "e", "d", "f">>
RecBdf == <<"r", "e", "c", ".", "b", "d", "f">>
SomeBytes == <<"p", "q", "r">>

InputFiles ==
    { [path |-> PsgEdf, pathlike |-> TRUE,  exists |-> TRUE,  content |-> SomeBytes],
      [path |-> PsgEdf, pathlike |-> FALSE, exists |-> TRUE,  content |-> SomeBytes],
      [path |-> RecBdf, pathlike |-> TRUE,  exists |-> TRUE,  content |-> SomeBytes],
      [path |-> PsgEdf, pathlike |-> TRUE,  exists |-> FALSE, content |-> <<>>] }

GivenGroups(groups) == [given |-> TRUE, groups |-> groups]
NoGroups == [given |-> FALSE, groups |-> <<>>]   \* channel_groups=None

IntArg(n) == [t |-> "int", v |-> n]
StrArg(cs) == [t |-> "str", v |-> cs]
NoneArg == [t |-> "none", v |-> <<>>]

\* the arguments of quick_predict; an empty path stands for None
QuickPredictArgs ==
    [ input_file_path         : InputFiles,
      model                   : {"U-Sleep v1.0", "U-Sleep v9"},
      output_file_path        : {<<>>, OutTsv},
      log_file_path           : {<<>>, LogTxt},
      anonymize_before_upload : BOOLEAN,
      data_per_prediction     : {IntArg(3840), StrArg(<<"a", "b", "c">>)},
      channel_groups          : {NoGroups, GivenGroups(<< <<"C3-A2", "EOG">> >>)},
      stream_log              : BOOLEAN ]

NoArgs == [none |-> TRUE]

PostResponses == {ConnErr, Raw(200, "ok"), Raw(400, "bad request")}

ModelLists == {<<"U-Sleep v1.0", "U-Sleep v2.0">>, <<"A", "B">>}
ModelNamesResponses ==
    {ConnErr, Raw(404, "not found"), Json(200, "json", [detail |-> "no models"])}
    \cup {Json(200, "json", [models |-> l]) : l \in ModelLists}

FileInfoResponses ==
    { ConnErr, Raw(404, "no file"), Json(200, "json", [detail |-> "no file"]),
      Json(200, "json", [channels |-> <<"C3-A2", "C4-A1", "EOG">>,
                         inferred_channel_types |-> <<"EEG", "EEG", "EOG">>]),
      Json(200, "json", [channels |-> <<"C3-A2", "EMG">>,
                         inferred_channel_types |-> <<"EEG", "EMG">>]) }

ConfigurationResponses ==
    { ConnErr, Raw(404, "no session"), Json(200, "json", [detail |-> "none"]),
      Json(200, "json", [required_channels |-> << <<"EEG">>, <<"EOG">> >>]) }

MaxCombinationsResponses ==
    { ConnErr, Raw(404, "no variable"), Json(200, "json", [detail |-> "none"]),
      Json(200, "json", [MAX_CHANNEL_COMBINATIONS |-> 1]),
      Json(200, "json", [MAX_CHANNEL_COMBINATIONS |-> 24]) }

\* the answers to the three requests of _infer_channel_groups; when the
\* caller gives the groups, none of the three is sent
InferResponses(channel_groups) ==
    IF channel_groups.given THEN {<<ConnErr, ConnErr, ConnErr>>}
    ELSE FileInfoResponses \X ConfigurationResponses \X MaxCombinationsResponses

\* the log is incremental: poll k brings nothing, or the next piece of the log
Chunks(k) == {<<>>, <<LowerChars[k]>>}

\* what poll number k may receive
PollResponses(k) ==
    { ConnErr, Raw(500, "server error"), Raw(404, "no session"), Raw(200, "not json"),
      Json(200, "json", [detail |-> "no log"]), Json(200, "json", [log |-> <<"a">>]) }
    \cup { Json(200, "json", [log |-> c, finished |-> f]) :
             c \in Chunks(k), f \in (IF k >= MaxPolls THEN {TRUE} ELSE BOOLEAN) }

Labels ==
    { Completed,
      <<"C", "o", "m", "p", "l", "e", "t", "e", "d">>,
      <<"C", "O", "M", "P", "L", "E", "T", "E", "D">>,
      <<"f", "a", "i", "l", "e", "d">>,
      <<"r", "u", "n", "n", "i", "n", "g">> }

StatusResponses ==
    {ConnErr, Raw(404, "no session"), Json(200, "json", [detail |-> "no label"])}
    \cup {Json(200, "json", [label |-> l]) : l \in Labels}

HypnogramResponses ==
    { ConnErr, Raw(404, "no hypnogram"), Raw(200, "not json"),
      Json(200, "json", [hypnogram |-> <<0, 1, 2>>]) }

DownloadResponses == {ConnErr, Raw(200, "0\n1\n2\n"), Raw(404, "no hypnogram")}

DeleteResponses == {ConnErr, Raw(200, "deleted"), Raw(404, "no session")}

NoLoc ==
    [model_names |-> NoModelNames, have_status |-> FALSE, label |-> <<>>,
     success |-> FALSE, log |-> <<>>, hyp |-> NoHyp]
NoInput == [none |-> TRUE]
NoOutput == [none |-> TRUE]

\* url="https://sleep.ai.ku.dk:443", session_name="default"
DefaultUrl ==
    <<"h", "t", "t", "p", "s", ":", "/", "/", "s", "l", "e", "e", "p", ".", "a", "i", ".",
      "k", "u", ".", "d", "k", ":", "4", "4", "3">>
DefaultSessionName == "default"

\* the client quick_predict is called on: built beforehand, with the defaults
RootClient == USleepAPI("token", DefaultSessionName, FALSE, DefaultUrl, ConnErr).val

(***************************************************************************)
(* quick_predict, one action per statement of its body.                    *)
(***************************************************************************)
\* a workflow that fetches the result whatever the job's status
AfterStreamAlwaysFetch(success) == "get_hypnogram"

\* if success: hyp = session.get_hypnogram() ... else: hyp = None
AfterStream(success) == IF success THEN "get_hypnogram" ELSE "write_log"

Init ==
    /\ pc = "idle"
    /\ args = NoArgs
    /\ session = ""
    /\ trace = <<>>
    /\ full_log = <<>>
    /\ continue_stream = FALSE
    /\ polls = <<>>
    /\ loc = NoLoc
    /\ err = NoErr
    /\ outcome = "running"
    /\ fs = <<>>
    /\ inp = NoInput
    /\ out = NoOutput
    /\ api = RootClient

\* a statement is over: its effects are recorded and control moves on, to the
\* end of the with block when it raised
Advance(res, next) ==
    /\ trace' = trace \o res.evs
    /\ fs' = ApplyWrites(fs, res.evs)
    /\ IF IsErr(res.err)
       THEN pc' = "exit" /\ err' = res.err
       ELSE pc' = next /\ err' = err

\* session_name = random_hex_string(); with self.new_session_context(...) as session
QuickPredict ==
    /\ pc = "idle"
    /\ \E a \in QuickPredictArgs, s \in SessionNames :
          LET made == NewSession(api, s)
          IN  /\ args' = a
              /\ session' = made.val.session_name
              /\ trace' = trace \o made.evs
    /\ pc' = "set_model"
    /\ UNCHANGED <<full_log, continue_stream, polls, loc, err, outcome, fs, inp, out, api>>

DoSetModel ==
    /\ pc = "set_model"
    /\ \E r1 \in ModelNamesResponses, r2 \in PostResponses :
          LET res == SetModel(session, args.model, r1, r2)
          IN  /\ loc' = [loc EXCEPT !.model_names = res.val]
              /\ Advance(res, "upload_file")
    /\ UNCHANGED <<args, session, full_log, continue_stream, polls, outcome, inp, out, api>>

DoUploadFile ==
    /\ pc = "upload_file"
    /\ \E r \in PostResponses :
          Advance(UploadFile(session, args.input_file_path, args.anonymize_before_upload, r),
                  "get_file_info")
    /\ UNCHANGED <<args, session, full_log, continue_stream, polls, loc, outcome, inp, out, api>>

DoGetFileInfo ==
    /\ pc = "get_file_info"
    /\ \E r \in FileInfoResponses : Advance(GetFileInfo(session, r), "predict")
    /\ UNCHANGED <<args, session, full_log, continue_stream, polls, loc, outcome, inp, out, api>>

DoPredict ==
    /\ pc = "predict"
    /\ \E rs \in InferResponses(args.channel_groups), r4 \in PostResponses :
          Advance(Predict(session, args.data_per_prediction, args.channel_groups,
                          rs[1], rs[2], rs[3], r4), "stream")
    /\ UNCHANGED <<args, session, full_log, continue_stream, polls, loc, outcome, inp, out, api>>

\* one call of stream with the given delay
DoStream(delay_sec) ==
    \E r \in PollResponses(Len(polls) + 1) :
        LET res == Stream(session, delay_sec, args.stream_log, r)
        IN  /\ polls' = Append(polls, r)
            /\ full_log' = full_log \o res.val.append
            /\ continue_stream' = res.val.cont
            /\ Advance(res, "stream_loop")

\* continue_stream = stream()
DoStreamFirst ==
    /\ pc = "stream"
    /\ DoStream(DefaultDelay)
    /\ UNCHANGED <<args, session, loc, outcome, inp, out, api>>

\* while continue_stream: continue_stream = stream(delay_sec=2)
DoStreamAgain ==
    /\ pc = "stream_loop"
    /\ continue_stream
    /\ DoStream(LoopDelay)
    /\ UNCHANGED <<args, session, loc, outcome, inp, out, api>>

\* full_log = "".join(full_log); return get_status()..., full_log
\* and back in quick_predict: if success: ... else: hyp = None
DoStreamStatus ==
    /\ pc = "stream_loop"
    /\ ~continue_stream
    /\ \E r \in StatusResponses :
          LET res == StreamStatus(session, r)
          IN  /\ loc' = IF IsErr(res.err) THEN loc
                        ELSE [loc EXCEPT !.have_status = TRUE,
                                         !.label = res.val.label,
                                         !.success = res.val.success,
                                         !.log = Join(full_log),
                                         !.hyp = NoHyp]
              /\ Advance(res, AfterStream(res.val.success))
    /\ UNCHANGED <<args, session, full_log, continue_stream, polls, outcome, inp, out, api>>

\* hyp = session.get_hypnogram()
DoGetHypnogram ==
    /\ pc = "get_hypnogram"
    /\ \E r \in HypnogramResponses :
          LET res == GetHypnogram(session, r)
          IN  /\ loc' = IF IsErr(res.err) THEN loc ELSE [loc EXCEPT !.hyp = res.val]
              /\ Advance(res, IF args.output_file_path # <<>> THEN "download" ELSE "write_log")
    /\ UNCHANGED <<args, session, full_log, continue_stream, polls, outcome, inp, out, api>>

\* path, type_ = os.path.splitext(output_file_path); session.download_hypnogram(...)
DoDownload ==
    /\ pc = "download"
    /\ \E r \in DownloadResponses, write_ok \in BOOLEAN :
          Advance(DownloadOutput(session, args.output_file_path, r, write_ok), "write_log")
    /\ UNCHANGED <<args, session, full_log, continue_stream, polls, loc, outcome, inp, out, api>>

\* if log_file_path: ...; return hyp, log
DoWriteLog ==
    /\ pc = "write_log"
    /\ \E write_ok \in BOOLEAN :
          Advance(IF args.log_file_path # <<>>
                  THEN WriteLog(args.log_file_path, loc.log, write_ok)
                  ELSE Res(<<>>, NoErr, NoData),
                  "exit")
    /\ UNCHANGED <<args, session, full_log, continue_stream, polls, loc, outcome, inp, out, api>>

\* new_session_context: finally: session.delete_session(); an exception of
\* the finally block replaces the one in flight
ExitSession ==
    /\ pc = "exit"
    /\ \E r \in DeleteResponses :
          LET res == IF Finally(err) THEN DeleteSession(session, r)
                     ELSE Res(<<>>, NoErr, NoData)
              e   == Raised(err, res.err)
          IN  /\ trace' = trace \o res.evs
              /\ err' = e
              /\ outcome' = IF IsErr(e) THEN "raised" ELSE "returned"
    /\ pc' = "done"
    /\ UNCHANGED <<args, session, full_log, continue_stream, polls, loc, fs, inp, out, api>>

Next ==
    \/ QuickPredict
    \/ DoSetModel
    \/ DoUploadFile
    \/ DoGetFileInfo
    \/ DoPredict
    \/ DoStreamFirst
    \/ DoStreamAgain
    \/ DoStreamStatus
    \/ DoGetHypnogram
    \/ DoDownload
    \/ DoWriteLog
    \/ ExitSession

Spec == Init /\ [][Next]_vars

(***************************************************************************)
(* stream_prediction_log on its own, statement by statement, with no       *)
(* record of the requests issued: the sleep and the request of a call of   *)
(* stream are two steps, so that a loop that goes on is a cycle of states. *)
(* polls holds the last response only.                                     *)
(***************************************************************************)
\* the server's log has at most this many pieces (the loop itself has no bound)
MaxLogChunks == 2

LoopPollResponses ==
    { ConnErr, Raw(500, "server error"), Raw(200, "not json"),
      Json(200, "json", [detail |-> "no log"]) }
    \cup { Json(200, "json", [log |-> c, finished |-> f]) :
             c \in (IF Len(full_log) < MaxLogChunks THEN Chunks(Len(full_log) + 1) ELSE {<<>>}),
             f \in BOOLEAN }

\* a while loop that gives up after the first repetition
LoopGoesOnOnce(continue, delay_sec) == continue /\ delay_sec = DefaultDelay

\* while continue_stream: after a call of stream with delay_sec
LoopGoesOn(continue, delay_sec) == continue

LoopInit ==
    /\ pc = "call"
    /\ args = NoArgs
    /\ session = ""
    /\ trace = <<>>
    /\ full_log = <<>>
    /\ continue_stream = FALSE
    /\ polls = <<>>
    /\ loc = NoLoc
    /\ err = NoErr
    /\ outcome = "running"
    /\ fs = <<>>
    /\ inp = NoInput
    /\ out = NoOutput
    /\ api = NoClient

\* stream_prediction_log(verbose) is called: full_log = []; stream()
LoopCall ==
    /\ pc = "call"
    /\ \E v \in BOOLEAN, s \in SessionNames :
          /\ args' = [verbose |-> v]
          /\ session' = s
    /\ inp' = [delay_sec |-> DefaultDelay]
    /\ pc' = "sleep"
    /\ UNCHANGED <<trace, full_log, continue_stream, polls, loc, err, outcome, fs, out, api>>

\* time.sleep(delay_sec)
LoopSleep ==
    /\ pc = "sleep"
    /\ pc' = "request"
    /\ UNCHANGED <<args, session, trace, full_log, continue_stream, polls, loc, err,
                   outcome, fs, inp, out, api>>

\* the rest of stream: the request, the chunk, the value returned
LoopRequest ==
    /\ pc = "request"
    /\ \E r \in LoopPollResponses :
          LET res == Stream(session, inp.delay_sec, args.verbose, r)
          IN  /\ polls' = <<r>>
              /\ full_log' = full_log \o res.val.append
              /\ continue_stream' = res.val.cont
              /\ IF IsErr(res.err)
                 THEN pc' = "raised" /\ err' = res.err /\ outcome' = "raised"
                 ELSE pc' = "while" /\ err' = err /\ outcome' = outcome
    /\ UNCHANGED <<args, session, trace, loc, fs, inp, out, api>>

\* while continue_stream: continue_stream = stream(delay_sec=2)
LoopAgain ==
    /\ pc = "while"
    /\ LoopGoesOn(continue_stream, inp.delay_sec)
    /\ inp' = [delay_sec |-> LoopDelay]
    /\ pc' = "sleep"
    /\ UNCHANGED <<args, session, trace, full_log, continue_stream, polls, loc, err,
                   outcome, fs, out, api>>

\* full_log = "".join(full_log); return get_status()['label'].lower() == ..., full_log
LoopReturn ==
    /\ pc = "while"
    /\ ~LoopGoesOn(continue_stream, inp.delay_sec)
    /\ \E r \in StatusResponses :
          LET res == StreamStatus(session, r)
          IN  IF IsErr(res.err)
              THEN pc' = "raised" /\ err' = res.err /\ outcome' = "raised" /\ loc' = loc
              ELSE /\ pc' = "returned" /\ err' = err /\ outcome' = "returned"
                   /\ loc' = [loc EXCEPT !.have_status = TRUE,
                                         !.label = res.val.label,
                                         !.success = res.val.success,
                                         !.log = Join(full_log)]
    /\ UNCHANGED <<args, session, trace, full_log, continue_stream, polls, fs, inp, out, api>>

LoopNext ==
    \/ LoopCall
    \/ LoopSleep
    \/ LoopRequest
    \/ LoopAgain
    \/ LoopReturn

\* the client is one sequential, blocking thread: whenever it has a next
\* statement, it executes it (a sleep ends, a request is answered or raises)
LoopSpec == LoopInit /\ [][LoopNext]_vars /\ WF_vars(LoopNext)

(***************************************************************************)
(* _infer_channel_groups on its own: the server's three answers are the    *)
(* input, drawn from every combination within the bounds.                  *)
(***************************************************************************)
ChannelName(j) == "ch" \o ToString(j)
ChannelTypes == {"EEG", "EOG", "EMG"}
\* a slot of required_channels lists the types it accepts
RequiredSlots == {<<"EEG">>, <<"EOG">>, <<"EEG", "EOG">>}

InferInputs ==
    [ channels       : {[j \in 1..n |-> ChannelName(j)] : n \in 0..MaxChannels},
      types          : SeqsUpTo(ChannelTypes, MaxChannels),
      required_types : SeqsUpTo(RequiredSlots, MaxSlots),
      max_groups     : (0 - 1)..MaxCombinations ]

InferInit ==
    /\ pc = "call"
    /\ args = NoArgs
    /\ session \in SessionNames
    /\ trace = <<>>
    /\ full_log = <<>>
    /\ continue_stream = FALSE
    /\ polls = <<>>
    /\ loc = NoLoc
    /\ err = NoErr
    /\ outcome = "running"
    /\ fs = <<>>
    /\ inp \in InferInputs
    /\ out = NoOutput
    /\ api = NoClient

InferCall ==
    /\ pc = "call"
    /\ LET res == InferChannelGroups(
                      session,
                      Json(200, "json", [channels |-> inp.channels,
                                         inferred_channel_types |-> inp.types]),
                      Json(200, "json", [required_channels |-> inp.required_types]),
                      Json(200, "json", [MAX_CHANNEL_COMBINATIONS |-> inp.max_groups]))
       IN  /\ trace' = res.evs
           /\ err' = res.err
           /\ out' = [groups |-> res.val]
           /\ outcome' = IF IsErr(res.err) THEN "raised" ELSE "returned"
    /\ pc' = "done"
    /\ UNCHANGED <<args, session, full_log, continue_stream, polls, loc, fs, inp, api>>

InferNext == InferCall

InferSpec == InferInit /\ [][InferNext]_vars

(***************************************************************************)
(* predict on its own.                                                     *)
(***************************************************************************)
PredictChannels == {"C3-A2", "EOG"}

\* the arguments of predict, and with them what the server answers to the
\* three requests of the inference and to the POST
PredictInputs ==
    UNION {
      [ data_per_prediction :
            { IntArg(0 - 5), IntArg(0), IntArg(1), IntArg(3840),
              StrArg(<<"1", "2", "8">>), StrArg(<<"-", "3">>), StrArg(<<"a", "b", "c">>),
              NoneArg },
        channel_groups : {g},
        answers        : InferResponses(g),
        answer         : PostResponses ] :
      g \in {NoGroups} \cup
            {GivenGroups(l) : l \in SeqsUpTo(SeqsUpTo(PredictChannels, MaxGroupLen), MaxGroups)} }

PredictInit ==
    /\ pc = "call"
    /\ args = NoArgs
    /\ session \in SessionNames
    /\ trace = <<>>
    /\ full_log = <<>>
    /\ continue_stream = FALSE
    /\ polls = <<>>
    /\ loc = NoLoc
    /\ err = NoErr
    /\ outcome = "running"
    /\ fs = <<>>
    /\ inp \in PredictInputs
    /\ out = NoOutput
    /\ api = NoClient

PredictCall ==
    /\ pc = "call"
    /\ LET res == Predict(session, inp.data_per_prediction, inp.channel_groups,
                          inp.answers[1], inp.answers[2], inp.answers[3], inp.answer)
       IN  /\ trace' = res.evs
           /\ err' = res.err
           /\ outcome' = IF IsErr(res.err) THEN "raised" ELSE "returned"
    /\ pc' = "done"
    /\ UNCHANGED <<args, session, full_log, continue_stream, polls, loc, fs, inp, out, api>>

PredictNext == PredictCall

PredictSpec == PredictInit /\ [][PredictNext]_vars

(***************************************************************************)
(* The file handling on its own: temp_anonymized_edf, upload_file,         *)
(* download_hypnogram, and the download step of quick_predict (lines       *)
(* 273-276). The call, its arguments, the server's answer and whether the  *)
(* disk accepts a write are the input.                                     *)
(***************************************************************************)
\* paths are built from these characters, up to this length before the extension
MaxStemLen == 3
\* a recording has up to this many bytes after its header fields
MaxTail == 2

PathChars == {"a", ".", "/"}
Stems == SeqsUpTo(PathChars, MaxStemLen)
DotTypes == {<<".">> \o t : t \in FileTypes}
DotCsv == <<".", "c", "s", "v">>

\* the first offset after the fields temp_anonymized_edf writes
HeaderEnd == HeaderStart + 2 * FieldWidth + Len(StartDate) + Len(StartTime)

\* a file of n bytes
Recording(n, seed) == [i \in 1..n |-> SomeBytes[((i + seed) % Len(SomeBytes)) + 1]]

RecordingLengths ==
    {0, HeaderStart + 1, HeaderEnd - 1, ChunkSize + MaxTail}
    \cup {HeaderEnd + k : k \in 0..MaxTail}

SourceFiles ==
    { f \in [ path     : {PsgEdf, RecBdf, <<"p", "s", "g">>, <<"a", ".", "b", ".", "e", "d", "f">>},
              pathlike : BOOLEAN,
              exists   : BOOLEAN,
              content  : {Recording(n, seed) : n \in RecordingLengths, seed \in 0..1} ] :
        f.exists \/ f.content = <<>> }

FileTypeArgs ==
    FileTypes \cup DotTypes
    \cup {<<>>, <<"c", "s", "v">>, DotCsv, <<"e", "d", "f">>, <<"t", "s", "v", ".">>}

FileInputs ==
    [call : {"temp_anonymized_edf"}, file : SourceFiles]
    \cup [call : {"upload_file"}, file : {f \in SourceFiles : Len(f.content) <= HeaderEnd},
          anonymize_before_upload : BOOLEAN, answer : PostResponses]
    \cup [call : {"download_hypnogram"}, out_path : Stems \ {<<>>}, file_type : FileTypeArgs,
          answer : DownloadResponses, write_ok : BOOLEAN]
    \cup [call : {"quick_predict"},
          output_file_path : {stem \o ext : stem \in Stems \ {<<>>},
                                            ext \in DotTypes \cup {<<>>, DotCsv}},
          answer : DownloadResponses, write_ok : BOOLEAN]

\* the disk holds the source file, when there is one
FileInit ==
    /\ pc = "call"
    /\ args = NoArgs
    /\ session \in SessionNames
    /\ trace = <<>>
    /\ full_log = <<>>
    /\ continue_stream = FALSE
    /\ polls = <<>>
    /\ loc = NoLoc
    /\ err = NoErr
    /\ outcome = "running"
    /\ inp \in FileInputs
    /\ fs = IF inp.call \in {"temp_anonymized_edf", "upload_file"} /\ inp.file.exists
            THEN [q \in {inp.file.path} |-> inp.file.content]
            ELSE <<>>
    /\ out = NoOutput
    /\ api = NoClient

\* the call is over: its effects, its value, how it ended
FileReturn(res) ==
    /\ trace' = res.evs
    /\ fs' = ApplyWrites(fs, res.evs)
    /\ err' = res.err
    /\ out' = [val |-> res.val]
    /\ outcome' = IF IsErr(res.err) THEN "raised" ELSE "returned"
    /\ pc' = "done"
    /\ UNCHANGED <<args, session, full_log, continue_stream, polls, loc, inp, api>>

AnonCall ==
    /\ pc = "call"
    /\ inp.call = "temp_anonymized_edf"
    /\ FileReturn(TempAnonymizedEdf(inp.file))

UploadCall ==
    /\ pc = "call"
    /\ inp.call = "upload_file"
    /\ FileReturn(UploadFile(session, inp.file, inp.anonymize_before_upload, inp.answer))

DownloadCall ==
    /\ pc = "call"
    /\ inp.call = "download_hypnogram"
    /\ FileReturn(DownloadHypnogram(session, inp.out_path, inp.file_type, inp.answer,
                                    inp.write_ok))

DownloadOutputCall ==
    /\ pc = "call"
    /\ inp.call = "quick_predict"
    /\ FileReturn(DownloadOutput(session, inp.output_file_path, inp.answer, inp.write_ok))

FileNext ==
    \/ AnonCall
    \/ UploadCall
    \/ DownloadCall
    \/ DownloadOutputCall

FileSpec == FileInit /\ [][FileNext]_vars

(***************************************************************************)
(* The command line (usleep_cmd.py, entry_func): the checks of the         *)
(* arguments, the construction of the client, the call of quick_predict    *)
(* (whose statements are the actions above) and the printing of its        *)
(* result. inp is the parsed command line and what exists on the disk.     *)
(***************************************************************************)
OutCsv == <<"o", "u", "t", ".", "c", "s", "v">>
OutBare == <<"o", "u", "t">>
OldBytes == <<"o", "l", "d">>

\* c.split("++")
RECURSIVE SplitPlus(_)
SplitPlus(cs) ==
    IF \E i \in 1..(Len(cs) - 1) : cs[i] = "+" /\ cs[i + 1] = "+"
    THEN LET i == CHOOSE k \in 1..(Len(cs) - 1) :
                      /\ cs[k] = "+" /\ cs[k + 1] = "+"
                      /\ \A j \in 1..(k - 1) : ~(cs[j] = "+" /\ cs[j + 1] = "+")
         IN  <<SubSeq(cs, 1, i - 1)>> \o SplitPlus(SubSeq(cs, i + 2, Len(cs)))
    ELSE <<cs>>

\* [c.split("++") for c in args['channel_groups']] if args['channel_groups'] else None
CliChannelGroups(given) ==
    IF given = <<>> THEN NoGroups
    ELSE GivenGroups([i \in 1..Len(given) |-> SplitPlus(given[i])])

\* a check that lets an existing file be overwritten without the flag
MayWriteAnyway(exists, overwrite) == TRUE

\* if path.exists() and not overwrite: raise OSError
MayWrite(exists, overwrite) == ~(exists /\ ~overwrite)

\* lines 85-100: the error the checks raise, NoErr when they all pass
CheckArgs(a, disk) ==
    IF a.input_path \notin DOMAIN disk \/ PathSuffix(a.input_path) # DotEdf
    THEN Err("OSError", "entry_func", "input file")
    ELSE IF PathSuffix(a.output_path) \notin DotTypes
    THEN Err("ValueError", "entry_func", "out file extension")
    ELSE IF ~MayWrite(a.output_path \in DOMAIN disk, a.overwrite_file)
    THEN Err("OSError", "entry_func", "output file exists")
    ELSE IF a.log_file_path # <<>> /\ ~MayWrite(a.log_file_path \in DOMAIN disk, a.overwrite_file)
    THEN Err("OSError", "entry_func", "log file exists")
    ELSE NoErr

\* args['token'] or os.environ[args['api_token_env_name']]
TokenOf(a) ==
    IF a.token # "" THEN [err |-> NoErr, val |-> a.token]
    ELSE IF a.env_token.set THEN [err |-> NoErr, val |-> a.env_token.value]
    ELSE [err |-> Err("KeyError", "entry_func", "USLEEP_API_TOKEN"), val |-> ""]

PingResponses == {ConnErr, Raw(200, "pong"), Raw(401, "unauthorized")}

\* --channel-groups E++O
CliInputs ==
    { a \in
    [ input_path       : {PsgEdf, RecBdf},
      input_exists     : BOOLEAN,
      output_path      : {OutTsv, OutCsv, OutBare},
      output_exists    : BOOLEAN,
      log_file_path    : {<<>>, LogTxt},
      log_exists       : BOOLEAN,
      overwrite_file   : BOOLEAN,
      token            : {"", "token"},
      env_token        : {[set |-> FALSE, value |-> ""], [set |-> TRUE, value |-> "envtoken"]},
      anonymize_before_upload : BOOLEAN,
      channel_groups   : {<< <<"E", "+", "+", "O">> >>},
      print_hypnogram  : BOOLEAN ] :
        a.log_exists => a.log_file_path # <<>> }

\* the files on the disk when the command starts
CliDisk(a) ==
    [q \in (IF a.input_exists THEN {a.input_path} ELSE {})
          \cup (IF a.output_exists THEN {a.output_path} ELSE {})
          \cup (IF a.log_exists THEN {LogTxt} ELSE {}) |->
        IF q = a.input_path THEN SomeBytes ELSE OldBytes]

CliInit ==
    /\ pc = "entry_func"
    /\ args = NoArgs
    /\ session = ""
    /\ trace = <<>>
    /\ full_log = <<>>
    /\ continue_stream = FALSE
    /\ polls = <<>>
    /\ loc = NoLoc
    /\ err = NoErr
    /\ outcome = "running"
    /\ inp \in CliInputs
    /\ fs = CliDisk(inp)
    /\ out = NoOutput
    /\ api = NoClient

\* lines 82-103
CliCheckArgs ==
    /\ pc = "entry_func"
    /\ LET e == CheckArgs(inp, fs)
       IN  IF IsErr(e)
           THEN pc' = "exited" /\ err' = e /\ outcome' = "raised"
           ELSE pc' = "construct" /\ err' = err /\ outcome' = outcome
    /\ UNCHANGED <<args, session, trace, full_log, continue_stream, polls, loc, fs, inp, out, api>>

\* line 105: api = USleepAPI(api_token=...)
CliConstruct ==
    /\ pc = "construct"
    /\ \E r \in PingResponses :
          LET token == TokenOf(inp)
              made  == IF IsErr(token.err) THEN Res(<<>>, token.err, NoClient)
                       ELSE USleepAPI(token.val, DefaultSessionName, TRUE, DefaultUrl, r)
          IN  /\ trace' = trace \o made.evs
              /\ api' = made.val
              /\ IF IsErr(made.err)
                 THEN pc' = "exited" /\ err' = made.err /\ outcome' = "raised"
                 ELSE pc' = "quick_predict" /\ err' = err /\ outcome' = outcome
    /\ UNCHANGED <<args, session, full_log, continue_stream, polls, loc, fs, inp, out>>

\* lines 106-115: api.quick_predict(...) is entered
CliQuickPredict ==
    /\ pc = "quick_predict"
    /\ \E s \in SessionNames :
          LET made == NewSession(api, s)
          IN  /\ session' = made.val.session_name
              /\ trace' = trace \o made.evs
    /\ args' = [ input_file_path         |-> [path |-> inp.input_path, pathlike |-> TRUE,
                                              exists |-> inp.input_path \in DOMAIN fs,
                                              content |-> SomeBytes],
                 model                   |-> "U-Sleep v1.0",
                 output_file_path        |-> inp.output_path,
                 log_file_path           |-> inp.log_file_path,
                 anonymize_before_upload |-> inp.anonymize_before_upload,
                 data_per_prediction     |-> IntArg(3840),
                 channel_groups          |-> CliChannelGroups(inp.channel_groups),
                 stream_log              |-> FALSE ]
    /\ pc' = "set_model"
    /\ UNCHANGED <<full_log, continue_stream, polls, loc, err, outcome, fs, inp, out, api>>

\* quick_predict is over; lines 116-117: if args['print_hypnogram']: print(hypnogram)
CliReturn ==
    /\ pc = "done"
    /\ trace' = IF outcome = "returned" /\ inp.print_hypnogram
                THEN Append(trace, Ev("PRINT", "", "", [text |-> loc.hyp]))
                ELSE trace
    /\ pc' = "exited"
    /\ UNCHANGED <<args, session, full_log, continue_stream, polls, loc, err, outcome, fs,
                   inp, out, api>>

CliNext ==
    \/ CliCheckArgs
    \/ CliConstruct
    \/ CliQuickPredict
    \/ DoSetModel
    \/ DoUploadFile
    \/ DoGetFileInfo
    \/ DoPredict
    \/ DoStreamFirst
    \/ DoStreamAgain
    \/ DoStreamStatus
    \/ DoGetHypnogram
    \/ DoDownload
    \/ DoWriteLog
    \/ ExitSession
    \/ CliReturn

CliSpec == CliInit /\ [][CliNext]_vars

(***************************************************************************)
(* The client and its sessions on their own: USleepAPI(...), then          *)
(* new_session or new_session_context on the object. The answer to the     *)
(* ping is drawn with the arguments.                                       *)
(***************************************************************************)
ClientUrls ==
    {DefaultUrl, DefaultUrl \o <<"/">>, DefaultUrl \o <<"/", "/">>,
     <<"h", "t", "t", "p", ":", "/", "/", "h", "/", "a", "/">>}

ClientInputs ==
    [ api_token      : {"", "token", "other"},
      session_name   : {DefaultSessionName, "night"},
      validate_token : BOOLEAN,
      url            : ClientUrls,
      answer         : PingResponses ]

ClientInit ==
    /\ pc = "init"
    /\ args = NoArgs
    /\ session = ""
    /\ trace = <<>>
    /\ full_log = <<>>
    /\ continue_stream = FALSE
    /\ polls = <<>>
    /\ loc = NoLoc
    /\ err = NoErr
    /\ outcome = "running"
    /\ inp \in ClientInputs
    /\ fs = <<>>
    /\ out = NoOutput
    /\ api = NoClient

\* api = USleepAPI(api_token, session_name, validate_token, url)
ClientConstruct ==
    /\ pc = "init"
    /\ LET made == USleepAPI(inp.api_token, inp.session_name, inp.validate_token,
                             inp.url, inp.answer)
       IN  /\ trace' = trace \o made.evs
           /\ api' = made.val
           /\ IF IsErr(made.err)
              THEN pc' = "failed" /\ err' = made.err /\ outcome' = "raised"
              ELSE pc' = "built" /\ err' = err /\ outcome' = outcome
    /\ UNCHANGED <<args, session, full_log, continue_stream, polls, loc, fs, inp, out>>

\* api.new_session(name)
ClientNewSession ==
    /\ pc = "built"
    /\ \E name \in SessionNames :
          LET made == NewSession(api, name)
          IN  /\ trace' = trace \o made.evs
              /\ out' = [val |-> made.val]
    /\ pc' = "new_session"
    /\ UNCHANGED <<args, session, full_log, continue_stream, polls, loc, err, outcome, fs,
                   inp, api>>

\* with api.new_session_context(name) as session: the block is entered
ClientEnterContext ==
    /\ pc = "built"
    /\ \E name \in SessionNames :
          LET made == NewSession(api, name)
          IN  /\ trace' = trace \o made.evs
              /\ out' = [val |-> made.val]
              /\ session' = made.val.session_name
    /\ pc' = "exit"
    /\ UNCHANGED <<args, full_log, continue_stream, polls, loc, err, outcome, fs, inp, api>>

ClientNext ==
    \/ ClientConstruct
    \/ ClientNewSession
    \/ ClientEnterContext
    \/ ExitSession

ClientSpec == ClientInit /\ [][ClientNext]_vars

(***************************************************************************)
(* quick_predict on clients of different session names: self is an input   *)
(* of the run. session_name is any string the caller chose, the default    *)
(* one or one that reads like a hexadecimal number.                        *)
(***************************************************************************)
RootClients ==
    { RootClient,
      USleepAPI("other", "3fa9", FALSE, DefaultUrl \o <<"/">>, ConnErr).val }

RunArgs ==
    [ input_file_path         : {[path |-> PsgEdf, pathlike |-> TRUE, exists |-> TRUE,
                                  content |-> SomeBytes]},
      model                   : {"U-Sleep v1.0"},
      output_file_path        : {<<>>, OutTsv},
      log_file_path           : {LogTxt},
      anonymize_before_upload : {FALSE},
      data_per_prediction     : {IntArg(3840)},
      channel_groups          : {NoGroups, GivenGroups(<< <<"C3-A2", "EOG">> >>)},
      stream_log              : {FALSE} ]

RunInit ==
    /\ pc = "idle"
    /\ args = NoArgs
    /\ session = ""
    /\ trace = <<>>
    /\ full_log = <<>>
    /\ continue_stream = FALSE
    /\ polls = <<>>
    /\ loc = NoLoc
    /\ err = NoErr
    /\ outcome = "running"
    /\ fs = <<>>
    /\ inp \in [self : RootClients]
    /\ out = NoOutput
    /\ api = inp.self

\* self.quick_predict(...): session_name = random_hex_string();
\* with self.new_session_context(session_name) as session
RunQuickPredict ==
    /\ pc = "idle"
    /\ \E a \in RunArgs, s \in SessionNames :
          LET made == NewSession(api, s)
          IN  /\ args' = a
              /\ session' = made.val.session_name
              /\ trace' = trace \o made.evs
    /\ pc' = "set_model"
    /\ UNCHANGED <<full_log, continue_stream, polls, loc, err, outcome, fs, inp, out, api>>

RunNext ==
    \/ RunQuickPredict
    \/ DoSetModel
    \/ DoUploadFile
    \/ DoGetFileInfo
    \/ DoPredict
    \/ DoStreamFirst
    \/ DoStreamAgain
    \/ DoStreamStatus
    \/ DoGetHypnogram
    \/ DoDownload
    \/ DoWriteLog
    \/ ExitSession

RunSpec == RunInit /\ [][RunNext]_vars

(***************************************************************************)
(* Reading the trace.                                                      *)
(***************************************************************************)
Positions(op, ep) == {i \in 1..Len(trace) : trace[i].op = op /\ trace[i].ep = ep}
Issued(op, ep) == Positions(op, ep) # {}
SessionDeletes == {i \in Positions("DELETE", "session") : trace[i].session = session}
LogStreamRequests == Positions("GET", "prediction_log_stream")
Writes == {i \in 1..Len(trace) : trace[i].op = "WRITE"}

\* a poll response that was a success: 200, JSON, with log and finished
PollOk(r) ==
    r.kind = "http" /\ r.status = 200 /\ r.isjson /\ HasKey(r.val, "log") /\ HasKey(r.val, "finished")
PollFinished(r) == PollOk(r) /\ r.val.finished
LastPollFinished == polls # <<>> /\ PollFinished(polls[Len(polls)])

\* the chunks of the poll responses ps, concatenated in poll order, written
\* from the last poll backwards
RECURSIVE ConcatLogs(_)
ConcatLogs(ps) ==
    IF ps = <<>> THEN <<>>
    ELSE ConcatLogs(SubSeq(ps, 1, Len(ps) - 1)) \o ps[Len(ps)].val.log

\* equality up to the case of the letters, without a conversion
SameLetter(a, b) ==
    a = b \/ \E j \in 1..Len(UpperChars) : {a, b} = {UpperChars[j], LowerChars[j]}
EqualIgnoringCase(x, y) ==
    Len(x) = Len(y) /\ \A i \in 1..Len(x) : SameLetter(x[i], y[i])

(***************************************************************************)
(* C1: every quick_predict call issues exactly one DELETE of its           *)
(* throw-away session, on every exit path (return, failed job, an error    *)
(* raised by any step), and none before the with block is left.            *)
(***************************************************************************)
C1_ExactlyOneSessionDelete ==
    /\ pc = "done" => Cardinality(SessionDeletes) = 1
    /\ pc = "done" => Cardinality(Positions("DELETE", "session")) = 1
    /\ pc # "done" => Positions("DELETE", "session") = {}

\* the run fails in the middle of the log stream and the session is deleted
C1_Witness ==
    /\ pc = "done"
    /\ outcome = "raised"
    /\ err.at = "stream"
    /\ Len(polls) = 2
    /\ Cardinality(SessionDeletes) = 1

NoResultFetched ==
    /\ ~Issued("GET", "hypnogram")
    /\ ~Issued("GET", "download/hypnogram")
    /\ \A i \in Writes : trace[i].data.path = args.log_file_path

JobNotCompleted == loc.have_status /\ ~loc.success

(***************************************************************************)
(* C2, as claimed: when the job finishes with a status other than          *)
(* completed, quick_predict raises nothing, returns (None, log), requests  *)
(* neither the hypnogram nor its download and writes no hypnogram file.    *)
(***************************************************************************)
C2_AsClaimed ==
    (pc = "done" /\ JobNotCompleted) =>
        /\ outcome = "returned"
        /\ loc.hyp.tag = "none"
        /\ loc.log = ConcatLogs(polls)
        /\ NoResultFetched

(***************************************************************************)
(* C2, amended: when the job finishes with a status other than completed,  *)
(* quick_predict never requests the hypnogram or its download and writes   *)
(* no hypnogram file; it returns (None, log) unless writing the log file   *)
(* or the DELETE of the session raises, and then that error is what the    *)
(* caller sees: the job's status itself is never raised.                   *)
(***************************************************************************)
C2_FailedJobIsAValue ==
    JobNotCompleted =>
        /\ NoResultFetched
        /\ loc.hyp.tag = "none"
        /\ loc.log = ConcatLogs(polls)
        /\ pc \in {"write_log", "exit", "done"}
        /\ pc = "done" =>
              \/ outcome = "returned" /\ ~IsErr(err)
              \/ outcome = "raised" /\ err.type = "OSError" /\ err.at = "quick_predict"
              \/ outcome = "raised" /\ err.type = "ConnectionError" /\ err.at = "delete_session"

\* a failed job with a log and an output path asked for: None is returned
C2_Witness ==
    /\ pc = "done"
    /\ JobNotCompleted
    /\ outcome = "returned"
    /\ loc.log # <<>>
    /\ args.output_file_path # <<>>
    /\ args.log_file_path # <<>>

(***************************************************************************)
(* C3: the status is queried only after a poll returned finished=true, and *)
(* success is true exactly when the status label equals "completed" up to  *)
(* the case of its letters.                                                *)
(***************************************************************************)
C3_SuccessIffCompleted ==
    /\ Issued("GET", "prediction_status") =>
          /\ LastPollFinished
          /\ \A i \in LogStreamRequests, j \in Positions("GET", "prediction_status") : i < j
    /\ loc.have_status => (loc.success <=> EqualIgnoringCase(loc.label, Completed))

\* the label COMPLETED counts as success
C3_Witness ==
    /\ loc.have_status
    /\ loc.label = <<"C", "O", "M", "P", "L", "E", "T", "E", "D">>
    /\ loc.success

(***************************************************************************)
(* C4: when the polls succeed and the first finished=true comes with poll  *)
(* n, exactly n log-stream requests are ever issued and the log returned   *)
(* is the chunks of polls 1..n concatenated in poll order.                 *)
(***************************************************************************)
C4_PollsAndLog ==
    /\ LastPollFinished =>
          /\ Cardinality(LogStreamRequests) = Len(polls)
          /\ \A i \in 1..(Len(polls) - 1) : PollOk(polls[i]) /\ ~polls[i].val.finished
    /\ loc.have_status => LastPollFinished /\ loc.log = ConcatLogs(polls)

\* chunks "a", "", "c" with finished false, false, true: three polls, log "ac"
C4_Witness ==
    /\ loc.have_status
    /\ Len(polls) = 3
    /\ polls[1].val.log = <<"a">>
    /\ polls[2].val.log = <<>>
    /\ polls[3].val.log = <<"c">>
    /\ loc.log = <<"a", "c">>
    /\ Cardinality(LogStreamRequests) = 3
    /\ pc = "done"

(***************************************************************************)
(* C5: a log-stream poll answered with a status other than 200 makes       *)
(* stream_prediction_log raise an error that carries the response's body;  *)
(* no log-stream request and no status query follows it.                   *)
(***************************************************************************)
C5_FailedPollAborts ==
    \A i \in 1..Len(polls) :
        (polls[i].kind = "http" /\ polls[i].status # 200) =>
            /\ i = Len(polls)
            /\ Cardinality(LogStreamRequests) = Len(polls)
            /\ ~Issued("GET", "prediction_status")
            /\ pc \in {"exit", "done"}
            /\ pc = "exit" =>
                  /\ err.type = "ValueError"
                  /\ err.at = "stream"
                  /\ err.body = polls[i].content

\* the second poll is answered 404 and its body is what the error carries
C5_Witness ==
    /\ pc = "exit"
    /\ Len(polls) = 2
    /\ polls[2].status = 404
    /\ err.body = "no session"
    /\ err.at = "stream"

AnyPost == \E i \in 1..Len(trace) : trace[i].op = "POST"

(***************************************************************************)
(* C7: set_model with a name that is not in the list the server answered   *)
(* fails with the invalid-model error and no POST is ever issued; the      *)
(* set_model POST is issued only for a name in the list fetched just       *)
(* before it.                                                              *)
(***************************************************************************)
C7_InvalidModelNeverPosted ==
    /\ (loc.model_names.fetched
        /\ \A i \in 1..Len(loc.model_names.names) : loc.model_names.names[i] # args.model) =>
          /\ ~AnyPost
          /\ pc \in {"exit", "done"}
          /\ pc = "exit" => err.type = "ValueError" /\ err.at = "set_model"
    /\ \A i \in Positions("POST", "set_model") :
          /\ i > 1
          /\ trace[i - 1].op = "GET" /\ trace[i - 1].ep = "info/model_names"
          /\ trace[i].data.model = args.model
          /\ loc.model_names.fetched
          /\ \E k \in 1..Len(loc.model_names.names) : loc.model_names.names[k] = args.model

\* "U-Sleep v1.0" against the list A, B: refused, and the run ends without a POST
C7_Witness ==
    /\ pc = "done"
    /\ args.model = "U-Sleep v1.0"
    /\ loc.model_names.fetched
    /\ loc.model_names.names = <<"A", "B">>
    /\ ~AnyPost

PollRaised == pc = "raised" /\ err.at = "stream"
FinishedReported == polls # <<>> /\ PollFinished(polls[Len(polls)])
LoopEnded == pc = "returned" \/ (pc = "raised" /\ err.at # "stream")

(***************************************************************************)
(* C6: whether the polling loop ends is up to the server. If no poll fails *)
(* and the server at some point reports finished=true, the loop is left    *)
(* and stream_prediction_log ends (it returns, unless the status query     *)
(* that follows fails). If no poll fails and the server never reports      *)
(* finished=true, the client issues log-stream requests for ever: nothing  *)
(* on the client's side bounds the number of polls or the time.            *)
(***************************************************************************)
C6_TerminationIsTheServers ==
    /\ ([]~PollRaised /\ <>FinishedReported) => <>LoopEnded
    /\ ([]~PollRaised /\ []~FinishedReported) => ([]<>(pc = "request") /\ []~LoopEnded)

\* two polls brought a chunk each before the server reported finished
C6_Witness ==
    /\ pc = "returned"
    /\ full_log = <<<<"a">>, <<"b">>>>
    /\ inp.delay_sec = LoopDelay
    /\ loc.log = <<"a", "b">>

RECURSIVE SeqProduct(_)
SeqProduct(ns) == IF ns = <<>> THEN 1 ELSE Head(ns) * SeqProduct(Tail(ns))

\* the positions of the file's channels whose type slot i accepts
MatchPositions(i) ==
    {j \in 1..Len(inp.channels) :
        /\ j <= Len(inp.types)
        /\ \E k \in 1..Len(inp.required_types[i]) : inp.required_types[i][k] = inp.types[j]}
MatchCounts == [i \in 1..Len(inp.required_types) |-> Cardinality(MatchPositions(i))]
\* the t-th matching channel of slot i, in file order
NthMatch(i, t) ==
    inp.channels[CHOOSE j \in MatchPositions(i) :
                    Cardinality({x \in MatchPositions(i) : x <= j}) = t]
\* the number of combinations of the slots after slot i
Weight(i) == SeqProduct(SubSeq(MatchCounts, i + 1, Len(MatchCounts)))

(***************************************************************************)
(* C8: for a maximum M >= 0, channel-group inference returns the first     *)
(* min(M, P) elements of the Cartesian product of the per-slot lists of    *)
(* matching channels in lexicographic order (first slot most significant,  *)
(* channels in file order), P being the product of the lists' lengths.     *)
(* Element q of that order is read off the digits of q-1 in the mixed      *)
(* radix of the lists' lengths.                                            *)
(***************************************************************************)
C8_FirstGroupsOfTheProduct ==
    (pc = "done" /\ inp.max_groups >= 0) =>
        LET P == SeqProduct(MatchCounts)
            g == out.groups
        IN  /\ ~IsErr(err)
            /\ Len(g) = IF inp.max_groups < P THEN inp.max_groups ELSE P
            /\ \A q \in 1..Len(g) :
                  /\ Len(g[q]) = Len(inp.required_types)
                  /\ \A i \in 1..Len(inp.required_types) :
                        g[q][i] = NthMatch(i, (((q - 1) \div Weight(i)) % MatchCounts[i]) + 1)

\* two slots with two matching channels each and a maximum of 2: of the four
\* combinations the first two are kept
C8_Witness ==
    /\ pc = "done"
    /\ inp.max_groups = 2
    /\ SeqProduct(MatchCounts) = 4
    /\ out.groups = << <<"ch1", "ch1">>, <<"ch1", "ch2">> >>

DppIsInt == inp.data_per_prediction.t = "int"

\* what int() makes of the values tried: the integers themselves, and the
\* numerals "128" and "-3"
DppConvertible ==
    \/ DppIsInt
    \/ inp.data_per_prediction = StrArg(<<"1", "2", "8">>)
    \/ inp.data_per_prediction = StrArg(<<"-", "3">>)
DppExpected ==
    IF DppIsInt THEN inp.data_per_prediction.v
    ELSE IF inp.data_per_prediction = StrArg(<<"1", "2", "8">>) THEN 128
    ELSE 0 - 3
ConversionFailed == err.at = "predict" /\ err.type \in {"ValueError", "TypeError"}

(***************************************************************************)
(* C9, as claimed: for a data_per_prediction that is zero or negative,     *)
(* predict fails locally and the predict POST is not issued.               *)
(***************************************************************************)
C9_AsClaimed ==
    (pc = "done" /\ DppIsInt /\ inp.data_per_prediction.v <= 0) =>
        /\ outcome = "raised"
        /\ err.at = "predict"
        /\ ~Issued("POST", "predict")

(***************************************************************************)
(* C9, amended: predict only converts data_per_prediction with int() and   *)
(* does not check its sign. A value int() cannot convert fails locally,    *)
(* before any request is issued; every integer, zero and negative ones     *)
(* included, is sent in the predict POST unchanged.                        *)
(***************************************************************************)
C9_ConvertedNotValidated ==
    pc = "done" =>
        /\ ~DppConvertible => (outcome = "raised" /\ ConversionFailed /\ trace = <<>>)
        /\ DppConvertible =>
              /\ ~ConversionFailed
              /\ inp.channel_groups.given => Issued("POST", "predict")
              /\ \A p \in Positions("POST", "predict") :
                    trace[p].data["data_per_prediction"] = DppExpected

\* data_per_prediction = 0 is posted
C9_Witness ==
    /\ pc = "done"
    /\ inp.data_per_prediction = IntArg(0)
    /\ \E p \in Positions("POST", "predict") : trace[p].data["data_per_prediction"] = 0

KeyOf(name, k) == name \o "-" \o ToString(k)

RECURSIVE TotalLen(_)
TotalLen(groups) == IF groups = <<>> THEN 0 ELSE Len(Head(groups)) + TotalLen(Tail(groups))

\* the channels of the entries k..n-1 whose group index is gi, in the order of k
RECURSIVE ChannelsOf(_, _, _, _)
ChannelsOf(data, n, gi, k) ==
    IF k >= n THEN <<>>
    ELSE (IF data[KeyOf("channel_group_idx", k)] = gi
          THEN <<data[KeyOf("channels", k)]>> ELSE <<>>)
         \o ChannelsOf(data, n, gi, k + 1)

\* the groups a reader of the payload reconstructs
Decoded(data, n) ==
    LET idxs == {data[KeyOf("channel_group_idx", k)] : k \in 0..(n - 1)}
    IN  [j \in 1..Cardinality(idxs) |->
            ChannelsOf(data, n, CHOOSE gi \in idxs : Cardinality({x \in idxs : x <= gi}) = j, 0)]

NonEmptyGroups(groups) == SelectSeq(groups, LAMBDA g : g # <<>>)

(***************************************************************************)
(* C10: besides data_per_prediction, the payload of predict holds exactly  *)
(* one channels-k / channel_group_idx-k pair per channel occurrence, k     *)
(* counting from 0 without gaps in group-then-channel order; read in the   *)
(* order of k and split by group index, the pairs give back the list of    *)
(* the non-empty groups, a channel named in two groups appearing in both.  *)
(***************************************************************************)
C10_PayloadRoundTrip ==
    (pc = "done" /\ inp.channel_groups.given) =>
        /\ (DppConvertible => Issued("POST", "predict"))
        /\ \A p \in Positions("POST", "predict") :
              LET data == trace[p].data
                  n    == TotalLen(inp.channel_groups.groups)
              IN  /\ DOMAIN data =
                        {"data_per_prediction"}
                        \cup {KeyOf("channels", k) : k \in 0..(n - 1)}
                        \cup {KeyOf("channel_group_idx", k) : k \in 0..(n - 1)}
                  /\ Decoded(data, n) = NonEmptyGroups(inp.channel_groups.groups)

\* EOG is named in both groups and is entry 1 of group 0 and entry 2 of group 1
C10_Witness ==
    /\ pc = "done"
    /\ inp.channel_groups = GivenGroups(<< <<"C3-A2", "EOG">>, <<"EOG">> >>)
    /\ \E p \in Positions("POST", "predict") :
          /\ trace[p].data["channels-1"] = "EOG"
          /\ trace[p].data["channel_group_idx-1"] = 0
          /\ trace[p].data["channels-2"] = "EOG"
          /\ trace[p].data["channel_group_idx-2"] = 1

LogAsked == pc # "idle" /\ args.log_file_path # <<>>
LogWrites == {i \in Writes : trace[i].data.path = args.log_file_path}
LogWritten == \E i \in LogWrites : trace[i].data.content = loc.log
LogWriteFailed == err.type = "OSError" /\ err.at = "quick_predict"
FetchRaised == err.at \in {"get_hypnogram", "download_hypnogram"}

(***************************************************************************)
(* C11, as claimed: with a log path given, once the polling loop has run   *)
(* to completion and the status was obtained, the accumulated log is       *)
(* written to the log path before quick_predict exits, whatever the        *)
(* result-fetching steps do (a failure of the log write itself set aside). *)
(***************************************************************************)
C11_AsClaimed ==
    (pc = "exit" /\ LogAsked /\ loc.have_status /\ ~LogWriteFailed) => LogWritten

(***************************************************************************)
(* C11, amended: with a log path given and the status obtained, the body   *)
(* of quick_predict ends with the accumulated log written to the log path  *)
(* exactly when nothing raised after the status query: always (up to a     *)
(* failure of the write itself) when the job did not complete, and when it *)
(* completed only if get_hypnogram and download_hypnogram returned. When   *)
(* one of these two raises, nothing is written to the log path. The log    *)
(* is written at most once, and never before the status is known.          *)
(***************************************************************************)
C11_LogWrittenUnlessFetchRaises ==
    /\ (pc = "exit" /\ LogAsked /\ loc.have_status) =>
          /\ LogWritten <=> ~IsErr(err)
          /\ IsErr(err) => (FetchRaised \/ LogWriteFailed)
          /\ FetchRaised => (loc.success /\ LogWrites = {})
          /\ ~loc.success => (LogWritten \/ LogWriteFailed)
    /\ (pc # "idle" /\ LogWrites # {}) =>
          /\ loc.have_status
          /\ Cardinality(LogWrites) = 1
          /\ LogWritten
          /\ fs[args.log_file_path] = loc.log

\* a completed job whose hypnogram was fetched and downloaded: the log "ab"
\* is on disk when the body of quick_predict ends
C11_Witness ==
    /\ pc = "exit"
    /\ LogAsked
    /\ loc.success
    /\ Issued("GET", "download/hypnogram")
    /\ loc.log = <<"a", "b">>
    /\ LogWritten
    /\ fs[args.log_file_path] = <<"a", "b">>

DownloadGets == Positions("GET", "download/hypnogram")
DownloadServed == inp.answer.kind = "http" /\ inp.answer.status = 200 /\ inp.write_ok
\* the last component of the path is not a dot file
PlainName(q) == q[RFind(q, "/") + 1] # "."
\* the last component of the path holds no dot
NoDotInName(q) == \A i \in (RFind(q, "/") + 1)..Len(q) : q[i] # "."

(***************************************************************************)
(* C12, as claimed: for an output path P whose extension is .tsv, .txt or  *)
(* .npy, the download step of quick_predict, answered 200, requests the    *)
(* format P's extension names and writes the file at exactly P; and        *)
(* download_hypnogram with a path without extension and a format f writes  *)
(* the file at path + "." + f. File names that start with a dot are left   *)
(* aside.                                                                  *)
(***************************************************************************)
C12_AsClaimed ==
    /\ (pc = "done" /\ inp.call = "quick_predict" /\ DownloadServed
        /\ PathSuffix(inp.output_file_path) \in DotTypes
        /\ PlainName(inp.output_file_path)) =>
          /\ \E i \in DownloadGets :
                <<".">> \o trace[i].data.file_type = PathSuffix(inp.output_file_path)
          /\ \E i \in Writes : trace[i].data.path = inp.output_file_path
          /\ DOMAIN fs = {inp.output_file_path}
    /\ (pc = "done" /\ inp.call = "download_hypnogram" /\ DownloadServed
        /\ NoDotInName(inp.out_path) /\ inp.file_type \in FileTypes) =>
          DOMAIN fs = {inp.out_path \o <<".">> \o inp.file_type}

(***************************************************************************)
(* C13, as claimed: when quick_predict returns, the first component of its *)
(* result is the decoded hypnogram or None, and it is the hypnogram        *)
(* exactly when the job's status was completed.                            *)
(***************************************************************************)
C13_AsClaimed ==
    (pc = "done" /\ outcome = "returned") =>
        /\ loc.hyp.tag \in {"json", "none"}
        /\ loc.hyp.tag = "json" <=> loc.success

TeardownRaised == [type |-> "ConnectionError", at |-> "delete_session", body |-> ""]

(***************************************************************************)
(* C14, as claimed: the error a step of quick_predict raised is the error  *)
(* its caller sees, whatever the teardown request does.                    *)
(***************************************************************************)
C14_AsClaimed ==
    [][(pc = "exit" /\ IsErr(err)) => err' = err]_vars

(***************************************************************************)
(* C14, amended: when a step of quick_predict raised E, the session DELETE *)
(* is still issued and the caller sees E unchanged, unless the DELETE      *)
(* request itself raises (no response: a connection error), and then the   *)
(* caller sees that connection error in place of E. quick_predict raises   *)
(* in both cases. An error of the steps is never changed before the        *)
(* teardown.                                                               *)
(***************************************************************************)
C14_ErrorSurvivesUnlessTeardownRaises ==
    [][/\ (pc = "exit" /\ IsErr(err)) =>
             /\ err' = err \/ err' = TeardownRaised
             /\ outcome' = "raised"
             /\ pc' = "done"
             /\ Len(trace') = Len(trace) + 1
             /\ trace'[Len(trace')].op = "DELETE"
       /\ (pc # "exit" /\ IsErr(err)) => UNCHANGED vars
       /\ (pc # "exit" /\ ~IsErr(err) /\ IsErr(err')) => pc' = "exit"]_vars

\* the download was refused with a 404 and, the session deleted, the caller
\* gets the error that carries the refusal's body
C14_Witness ==
    /\ pc = "done"
    /\ outcome = "raised"
    /\ err = [type |-> "ValueError", at |-> "download_hypnogram", body |-> "no hypnogram"]
    /\ Cardinality(SessionDeletes) = 1

Requests == {i \in 1..Len(trace) : trace[i].op \in {"GET", "POST", "DELETE"}}

\* the command line is one the checks must refuse, read off the arguments and
\* the disk: of the paths tried, psg.edf alone is an .edf and out.tsv alone
\* has an extension of the list
CliInvalid ==
    \/ ~inp.input_exists
    \/ inp.input_path # PsgEdf
    \/ inp.output_path # OutTsv
    \/ inp.output_exists /\ ~inp.overwrite_file
    \/ inp.log_file_path # <<>> /\ inp.log_exists /\ ~inp.overwrite_file

(***************************************************************************)
(* C15: a command line that fails a check of entry_func (input file        *)
(* missing or not .edf, output extension outside .tsv/.txt/.npy, output    *)
(* or log file existing without --overwrite-file) ends in an error of      *)
(* entry_func before any request is issued, the token-validation ping      *)
(* included: no client is built and no file is touched. A request is only  *)
(* ever issued for a command line that passes every check, and the first   *)
(* one is the ping.                                                        *)
(***************************************************************************)
C15_ChecksBeforeAnyRequest ==
    /\ CliInvalid =>
          /\ trace = <<>>
          /\ api = NoClient
          /\ fs = CliDisk(inp)
          /\ pc \in {"entry_func", "exited"}
          /\ pc = "exited" =>
                /\ outcome = "raised"
                /\ err.at = "entry_func"
                /\ err.type \in {"OSError", "ValueError"}
    /\ Requests # {} =>
          /\ ~CliInvalid
          /\ trace[1].op = "GET" /\ trace[1].ep = "info/ping"

\* out.tsv exists and --overwrite-file is not given, all else being in order:
\* the command ends with the error and without a request
C15_Witness ==
    /\ pc = "exited"
    /\ inp.input_exists /\ inp.input_path = PsgEdf
    /\ inp.output_path = OutTsv /\ inp.output_exists /\ ~inp.overwrite_file
    /\ inp.token = "token"
    /\ err = [type |-> "OSError", at |-> "entry_func", body |-> "output file exists"]
    /\ Requests = {}

AnonCalled == pc = "done" /\ inp.call = "temp_anonymized_edf"
ValidRecording == Len(inp.file.content) >= 184

(***************************************************************************)
(* C16: whenever temp_anonymized_edf returns a handle for a recording of   *)
(* at least 184 bytes, the temporary copy is as long as the source, equal  *)
(* to it at every offset outside 8..183, and the handle stands at offset   *)
(* 0; the call returns for every such recording that exists and is given   *)
(* as an .edf path object. Whatever the outcome of the call, the source    *)
(* file is left as it was and nothing else on the disk is written.         *)
(***************************************************************************)
C16_AnonymizedCopyFrame ==
    AnonCalled =>
        /\ Writes = {}
        /\ DOMAIN fs = (IF inp.file.exists THEN {inp.file.path} ELSE {})
        /\ inp.file.exists => fs[inp.file.path] = inp.file.content
        /\ (ValidRecording /\ inp.file.exists /\ inp.file.pathlike
            /\ inp.file.path \in {PsgEdf, <<"a", ".", "b", ".", "e", "d", "f">>}) =>
              outcome = "returned"
        /\ (ValidRecording /\ outcome = "returned") =>
              /\ out.val.open
              /\ out.val.pos = 0
              /\ Len(out.val.content) = Len(inp.file.content)
              /\ \A i \in 1..Len(inp.file.content) :
                    (i - 1 < 8 \/ i - 1 > 183) => out.val.content[i] = inp.file.content[i]

\* a recording longer than one chunk of the copy loop: the copy starts with
\* the source's first 8 bytes, carries X at offset 8 and 00.00.00 up to
\* offset 183, and goes on with the source's bytes from offset 184
C16_Witness ==
    /\ AnonCalled
    /\ outcome = "returned"
    /\ Len(inp.file.content) > ChunkSize
    /\ out.val.pos = 0
    /\ Len(out.val.content) = Len(inp.file.content)
    /\ SubSeq(out.val.content, 1, 8) = SubSeq(inp.file.content, 1, 8)
    /\ out.val.content[9] = "X" /\ inp.file.content[9] # "X"
    /\ SubSeq(out.val.content, 177, 184) = StartTime
    /\ out.val.content[185] = inp.file.content[185]

\* of the paths tried, these have another suffix than .edf, and of the file
\* types tried, these name none of tsv, txt, npy once their dots are stripped
NotEdf == {RecBdf, <<"p", "s", "g">>}
NoFormat == {<<>>, <<"c", "s", "v">>, <<".", "c", "s", "v">>, <<"e", "d", "f">>}

(***************************************************************************)
(* C17: an unsupported extension is refused before any I/O. Anonymizing a  *)
(* path whose suffix is not .edf, directly or through upload_file, raises  *)
(* a ValueError with no temporary file made, the source not opened and no  *)
(* upload POST issued; download_hypnogram with a file type other than      *)
(* tsv, txt or npy raises (the assertion of line 181) with no request      *)
(* issued and no file written.                                             *)
(***************************************************************************)
C17_UnsupportedFormatBeforeIO ==
    /\ (pc = "done"
        /\ \/ inp.call = "temp_anonymized_edf"
           \/ inp.call = "upload_file" /\ inp.anonymize_before_upload
        /\ inp.file.path \in NotEdf) =>
          /\ outcome = "raised"
          /\ err.type = "ValueError" /\ err.at = "temp_anonymized_edf"
          /\ trace = <<>>
          /\ DOMAIN fs = (IF inp.file.exists THEN {inp.file.path} ELSE {})
    /\ (pc = "done" /\ inp.call = "download_hypnogram" /\ inp.file_type \in NoFormat) =>
          /\ outcome = "raised"
          /\ err.type = "AssertionError" /\ err.at = "download_hypnogram"
          /\ trace = <<>>
          /\ fs = <<>>

\* rec.bdf exists and the server would accept the upload: upload_file with
\* anonymization raises and has done nothing
C17_Witness ==
    /\ pc = "done"
    /\ inp.call = "upload_file" /\ inp.anonymize_before_upload
    /\ inp.file.path = RecBdf /\ inp.file.exists /\ inp.file.pathlike
    /\ inp.answer.status = 200
    /\ outcome = "raised"
    /\ trace = <<>>

\* the requests of the trace that are the ping
Pings == {i \in Requests : trace[i].op = "GET" /\ trace[i].ep = "info/ping"}
PingFails == inp.answer.kind = "conn" \/ inp.answer.status # 200

(***************************************************************************)
(* C18: constructing the client with validate_token issues exactly one     *)
(* request, the ping, against the stripped base URL and with the token;    *)
(* when the ping is not answered with 200 the construction raises (a       *)
(* ConnectionRefusedError when there was an answer), no client object      *)
(* exists and no further request follows. Without validation no request    *)
(* is issued. The object made by new_session, and the one a scoped session *)
(* is entered with, carries the token and base URL of the client it was    *)
(* made from, and making it issues no request.                             *)
(***************************************************************************)
C18_OnePingAndSessionsShareCredentials ==
    /\ pc # "init" =>
          /\ Pings = (IF inp.validate_token THEN {1} ELSE {})
          /\ inp.validate_token =>
                /\ trace[1].data.url = RStrip(inp.url, "/")
                /\ trace[1].data.headers =
                      (IF inp.api_token # ""
                       THEN [Authorization |-> "Bearer " \o inp.api_token]
                       ELSE [none |-> TRUE])
          /\ (inp.validate_token /\ PingFails) <=> pc = "failed"
    /\ pc = "failed" =>
          /\ api = NoClient
          /\ outcome = "raised"
          /\ Requests = {1}
          /\ inp.answer.kind # "conn" => err.type = "ConnectionRefusedError"
    /\ pc \in {"built", "new_session", "exit", "done"} =>
          /\ api.built
          /\ api.api_token = inp.api_token
          /\ api.url = RStrip(inp.url, "/")
    /\ pc \in {"new_session", "exit"} =>
          /\ out.val.built
          /\ out.val.api_token = api.api_token
          /\ out.val.url = api.url
          /\ out.val.session_name \in SessionNames
          /\ Requests = Pings

\* a token the server refuses with 401: one request, no client
C18_Witness ==
    /\ pc = "failed"
    /\ inp.validate_token /\ inp.answer.status = 401
    /\ Len(trace) = 1 /\ Pings = {1}
    /\ api = NoClient
    /\ err.type = "ConnectionRefusedError"

\* the three requests of the inference were answered with the JSON objects
\* it reads
InferenceAnswered ==
    /\ \A i \in 1..3 : inp.answers[i].kind = "http" /\ inp.answers[i].isjson
    /\ {"channels", "inferred_channel_types"} \subseteq DOMAIN inp.answers[1].val
    /\ "required_channels" \in DOMAIN inp.answers[2].val
    /\ "MAX_CHANNEL_COMBINATIONS" \in DOMAIN inp.answers[3].val

\* a slot of required_channels that accepts the type of no channel of the file
SlotWithoutChannel ==
    LET info  == inp.answers[1].val
        slots == inp.answers[2].val.required_channels
    IN  \E i \in 1..Len(slots) :
           \A j \in 1..Len(info.inferred_channel_types) :
              j <= Len(info.channels) =>
                 \A k \in 1..Len(slots[i]) : slots[i][k] # info.inferred_channel_types[j]

(***************************************************************************)
(* C19: predict is called without channel groups and the file holds no     *)
(* channel for one of the required slots. The inference raises nothing,    *)
(* and predict issues, after the three GETs of the inference, the predict  *)
(* POST with a payload whose only entry is data_per_prediction; predict    *)
(* returns when the POST is answered.                                      *)
(***************************************************************************)
C19_NoMatchStillPosts ==
    (pc = "done" /\ ~inp.channel_groups.given /\ DppConvertible
     /\ InferenceAnswered /\ SlotWithoutChannel) =>
        /\ Len(trace) = 4
        /\ \A i \in 1..3 : trace[i].op = "GET"
        /\ trace[4].op = "POST" /\ trace[4].ep = "predict"
        /\ DOMAIN trace[4].data = {"data_per_prediction"}
        /\ trace[4].data["data_per_prediction"] = DppExpected
        /\ inp.answer.kind = "http" <=> outcome = "returned"
        /\ outcome = "raised" => err.at = "predict" /\ err.type = "ConnectionError"

\* the file has an EEG and an EMG channel, the model requires EEG and EOG
C19_Witness ==
    /\ pc = "done"
    /\ inp.channel_groups = NoGroups
    /\ InferenceAnswered
    /\ inp.answers[1].val.inferred_channel_types = <<"EEG", "EMG">>
    /\ inp.answers[2].val.required_channels = << <<"EEG">>, <<"EOG">> >>
    /\ inp.answer.status = 200
    /\ outcome = "returned"
    /\ Len(trace) = 4 /\ DOMAIN trace[4].data = {"data_per_prediction"}

\* the requests of the run so far, in the order they were issued
RequestSeq == SelectSeq(trace, LAMBDA e : e.op \in {"GET", "POST", "DELETE"})
Step(op, ep) == [op |-> op, ep |-> ep]
StepsOf(evs) == [i \in 1..Len(evs) |-> Step(evs[i].op, evs[i].ep)]
IsPrefixOf(a, b) == Len(a) <= Len(b) /\ a = SubSeq(b, 1, Len(a))
IsDelete(e) == e.op = "DELETE" /\ e.ep = "session"

\* the requests of a run that goes all the way with n polls, before the DELETE
FixedOrder(n) ==
    <<Step("GET", "info/model_names"), Step("POST", "set_model"),
      Step("POST", "file"), Step("GET", "file")>>
    \o (IF args.channel_groups.given THEN <<>>
        ELSE <<Step("GET", "file"), Step("GET", "configuration_options"),
               Step("GET", "info/config")>>)
    \o <<Step("POST", "predict")>>
    \o [i \in 1..n |-> Step("GET", "prediction_log_stream")]
    \o <<Step("GET", "prediction_status"), Step("GET", "hypnogram")>>
    \o (IF args.output_file_path # <<>> THEN <<Step("GET", "download/hypnogram")>> ELSE <<>>)

PollsSoFar == Cardinality(Positions("GET", "prediction_log_stream"))

(***************************************************************************)
(* C20: at every point of a quick_predict run, the requests issued so far, *)
(* the closing DELETE left aside, are a beginning of the fixed order       *)
(* model-list GET, set_model POST, upload POST, file-info GET, the three   *)
(* inference GETs when no groups are given, predict POST, the log-stream   *)
(* polls, status GET, hypnogram GET, download GET when an output file is   *)
(* asked for. Until the run is over no DELETE has been issued; when it is  *)
(* over, exactly one has, as the last request, whatever step the run       *)
(* stopped at. Every request that names a session names the run's session, *)
(* and a predict POST has the upload POST before it.                       *)
(***************************************************************************)
C20_FixedRequestOrder ==
    pc # "idle" =>
        LET reqs == RequestSeq
            over == pc = "done"
            body == IF over /\ reqs # <<>> THEN SubSeq(reqs, 1, Len(reqs) - 1) ELSE reqs
        IN  /\ over => (reqs # <<>> /\ IsDelete(reqs[Len(reqs)]))
            /\ \A i \in 1..Len(body) : ~IsDelete(body[i])
            /\ IsPrefixOf(StepsOf(body), FixedOrder(IF PollsSoFar > 1 THEN PollsSoFar ELSE 1))
            /\ \A i \in 1..Len(reqs) : reqs[i].session \in {"", session}
            /\ \A p \in Positions("POST", "predict") :
                  \E u \in Positions("POST", "file") : u < p

\* a run that goes all the way: no groups given, two polls, an output file
C20_Witness ==
    /\ pc = "done" /\ outcome = "returned"
    /\ ~args.channel_groups.given /\ args.output_file_path # <<>>
    /\ PollsSoFar = 2
    /\ StepsOf(RequestSeq) = FixedOrder(2) \o <<Step("DELETE", "session")>>

IsSleep(e) == e.op = "SLEEP"
IsPoll(e) == e.op = "GET" /\ e.ep = "prediction_log_stream"
\* the delays and the log-stream requests of the run, in the order they happened
Timed == SelectSeq(trace, LAMBDA e : IsSleep(e) \/ IsPoll(e))

(***************************************************************************)
(* C21: the delays and the log-stream requests alternate, one delay before *)
(* each request: 0 seconds before the first request, 2 seconds before      *)
(* every later one. A delay of 2 seconds comes directly after the previous *)
(* request or after the print of its chunk, and is directly followed by    *)
(* its request. Every poll but the last was a success with finished=false: *)
(* after the poll that reports finished=true, or that fails, there is no   *)
(* delay and no request.                                                   *)
(***************************************************************************)
C21_DelayBeforeLaterPollsOnly ==
    /\ Len(Timed) = 2 * Len(polls)
    /\ \A k \in 1..Len(polls) :
          /\ IsSleep(Timed[2 * k - 1])
          /\ Timed[2 * k - 1].data.sec = (IF k = 1 THEN 0 ELSE 2)
          /\ IsPoll(Timed[2 * k])
          /\ k < Len(polls) => (PollOk(polls[k]) /\ ~polls[k].val.finished)
    /\ \A i \in 1..Len(trace) :
          IsSleep(trace[i]) =>
              /\ i < Len(trace) /\ IsPoll(trace[i + 1])
              /\ trace[i].data.sec = 2 =>
                    (i > 1 /\ (IsPoll(trace[i - 1]) \/ trace[i - 1].op = "PRINT"))

\* three polls, the third one finished: delays of 0, 2 and 2 seconds, the
\* chunk of the first poll printed before the second delay
C21_Witness ==
    /\ pc = "done"
    /\ Len(polls) = 3 /\ LastPollFinished
    /\ args.stream_log /\ polls[1].val.log # <<>>
    /\ Len(Timed) = 6
    /\ Timed[1].data.sec = 0 /\ Timed[3].data.sec = 2 /\ Timed[5].data.sec = 2
    /\ \E i \in 1..Len(trace) : trace[i].op = "PRINT" /\ IsSleep(trace[i + 1])

\* the endpoints under /api/v1/sleep_stager/{session_name}
SessionScoped ==
    {"set_model", "file", "configuration_options", "predict", "prediction_log_stream",
     "prediction_status", "hypnogram", "download/hypnogram", "session"}
ScopedRequests == {i \in Requests : trace[i].ep \in SessionScoped}
RootUnchanged == api = inp.self
AddressGenerated ==
    /\ session \in SessionNames
    /\ \A i \in ScopedRequests : trace[i].session = session
    /\ \A i \in Requests \ ScopedRequests : trace[i].session = ""

(***************************************************************************)
(* C22, as claimed: every session-scoped request of a quick_predict run    *)
(* addresses the generated session name, the client the run was called on  *)
(* keeps its session name, token and url, and no request of the run        *)
(* addresses the session of that client.                                   *)
(***************************************************************************)
C22_AsClaimed ==
    pc # "idle" =>
        /\ AddressGenerated
        /\ RootUnchanged
        /\ \A i \in Requests : trace[i].session # api.session_name

(***************************************************************************)
(* C22, amended: every session-scoped request of a quick_predict run       *)
(* addresses the generated session name, the other requests name no        *)
(* session, and the client the run was called on keeps its session name,   *)
(* token and url. The generated name is not compared with the client's     *)
(* own: a request of the run addresses the client's own session exactly    *)
(* when the generator drew that very name, which can happen only when the  *)
(* caller named the client's session with a string the generator produces. *)
(***************************************************************************)
C22_RunAddressesGeneratedSession ==
    /\ RootUnchanged
    /\ pc # "idle" =>
          /\ AddressGenerated
          /\ \A i \in Requests :
                trace[i].session = api.session_name <=>
                   (i \in ScopedRequests /\ session = api.session_name)
          /\ api.session_name \notin SessionNames =>
                \A i \in Requests : trace[i].session # api.session_name

\* a run that went through on the client named "3fa9": every scoped request,
\* the DELETE included, addresses "b07c"
C22_Witness ==
    /\ pc = "done" /\ outcome = "returned"
    /\ api.session_name = "3fa9" /\ session = "b07c"
    /\ ~args.channel_groups.given /\ args.output_file_path # <<>>
    /\ {trace[i].ep : i \in ScopedRequests} = SessionScoped
    /\ \A i \in ScopedRequests : trace[i].session = "b07c"
    /\ IsDelete(trace[Len(trace)])

====
